---------------------------- MODULE Spec2Model ----------------------------
(***************************************************************************)
(* Intrinsic halfedge triangulation with edge flips and the signpost       *)
(* angular index of flip-threejs.                                          *)
(*                                                                         *)
(* Numbers.  Positions are integer points.  A length is a fixed-point      *)
(* number with two decimals (Math.sqrt rounded down to 1/100); an angle    *)
(* is a whole number of degrees (Math.acos rounded to the nearest degree), *)
(* so PI is 180.                                                           *)
(***************************************************************************)
EXTENDS Integers, Sequences, FiniteSets, TLC

VARIABLES triangulation, signpostData, call, flips, network

vars == <<triangulation, signpostData, call, flips, network>>

\* the absent reference (null / undefined)
Null == -1

\* at most this many successful flips are explored
MaxFlips == 2

\* edge flips made on a triangulation before a network is built on it
MaxPrepFlips == 2

\* flipOut and iterativeShorten calls made on one network
MaxCalls == 1

\* the largest maxIterations passed to a shortener
MaxIter == 2

\* the longest waypoint list a network is built from
MaxWaypoints == 3

\* a closed loop is asked through at most this many input edges
MaxInputEdges == 2

\* a closed loop is computed after at most this many successful flips
MaxLoopFlips == 1

\* a GeodesicLoop is constructed from at most this many edges
MaxLoopEdges == 4

\* optimizeOrder is asked for at most this many waypoint edges
MaxOrderEdges == 3

\* Math.PI, in degrees
PI == 180

\* safety limit of the vertex fan walks
WalkLimit == 1000

Min(S) == CHOOSE x \in S : \A y \in S : x <= y
Max(S) == CHOOSE x \in S : \A y \in S : x >= y

-----------------------------------------------------------------------------
(* Numeric primitives *)

RECURSIVE SqrtSearch(_, _, _)
SqrtSearch(n, lo, hi) ==
    IF lo >= hi THEN lo
    ELSE LET mid == (lo + hi + 1) \div 2
         IN IF mid * mid <= n THEN SqrtSearch(n, mid, hi)
                              ELSE SqrtSearch(n, lo, mid - 1)

\* Math.sqrt of a squared distance, as a fixed-point length (1/100 units)
Sqrt(d2) == SqrtSearch(d2 * 10000, 0, 100 * (d2 + 1))

\* Math.sqrt(dx*dx + dy*dy + dz*dz) between two positions
Distance(p, q) ==
    LET dx == q[1] - p[1]
        dy == q[2] - p[2]
        dz == q[3] - p[3]
    IN Sqrt(dx * dx + dy * dy + dz * dz)

\* 1000 * cos(d degrees), d = 0..180 (index d + 1)
CosTable ==
  <<1000, 1000, 999, 999, 998, 996, 995, 993, 990, 988, 985, 982, 978, 974,
    970, 966, 961, 956, 951, 946, 940, 934, 927, 921, 914, 906, 899, 891,
    883, 875, 866, 857, 848, 839, 829, 819, 809, 799, 788, 777, 766, 755,
    743, 731, 719, 707, 695, 682, 669, 656, 643, 629, 616, 602, 588, 574,
    559, 545, 530, 515, 500, 485, 469, 454, 438, 423, 407, 391, 375, 358,
    342, 326, 309, 292, 276, 259, 242, 225, 208, 191, 174, 156, 139, 122,
    105, 87, 70, 52, 35, 17, 0, -17, -35, -52, -70, -87, -105, -122, -139,
    -156, -174, -191, -208, -225, -242, -259, -276, -292, -309, -326, -342,
    -358, -375, -391, -407, -423, -438, -454, -469, -485, -500, -515, -530,
    -545, -559, -574, -588, -602, -616, -629, -643, -656, -669, -682, -695,
    -707, -719, -731, -743, -755, -766, -777, -788, -799, -809, -819, -829,
    -839, -848, -857, -866, -875, -883, -891, -899, -906, -914, -921, -927,
    -934, -940, -946, -951, -956, -961, -966, -970, -974, -978, -982, -985,
    -988, -990, -993, -995, -996, -998, -999, -999, -1000, -1000>>

Abs(x) == IF x < 0 THEN -x ELSE x

\* the one element of a set of one element; The({b : x \in {e}}) is b with
\* x standing for the value of e
The(S) == CHOOSE x \in S : TRUE

\* acos for a cosine c >= 0 given in thousandths, to the nearest whole
\* degree: the table decreases, so the candidates are the first degree whose
\* cosine is not above c and the degree before it
AcosAcute(c) ==
    The({The({The({
        IF Abs(table[lo + 1] - c) <= Abs(table[hi + 1] - c) THEN lo ELSE hi
        : lo \in {IF hi = 0 THEN 0 ELSE hi - 1}})
        : hi \in {Cardinality({d \in 0..90 : table[d + 1] > c})}})
        : table \in {CosTable}})

\* Math.acos; acos(-c) = PI - acos(c)
Acos(c) == IF c >= 0 THEN AcosAcute(c) ELSE 180 - AcosAcute(-c)

\* GeometricUtils.angleFromSides: Null stands for the thrown
\* 'Degenerate triangle' error
angleFromSides(oppositeSide, adjacentSide1, adjacentSide2) ==
    LET numerator == adjacentSide1 * adjacentSide1
                     + adjacentSide2 * adjacentSide2
                     - oppositeSide * oppositeSide
        denominator == 2 * adjacentSide1 * adjacentSide2
    IN IF denominator = 0 THEN Null
       ELSE LET q == (Abs(numerator) * 1000) \div denominator
                cosine == IF numerator < 0 THEN -q ELSE q
                clampedCosine == IF cosine > 1000 THEN 1000
                                 ELSE IF cosine < -1000 THEN -1000 ELSE cosine
            IN Acos(clampedCosine)

-----------------------------------------------------------------------------
(* Input geometries: positions and a triangle index buffer, indices per    *)
(* triangle counter-clockwise.  Triangle and OpenMesh are the test         *)
(* geometries of that name with the coordinates doubled, which keeps the   *)
(* positions integer and the angles as they are.                           *)

Triangle ==
    [position |-> <<<<0, 0, 0>>, <<2, 0, 0>>, <<1, 2, 0>>>>,
     index    |-> <<0, 1, 2>>]

Quad ==
    [position |-> <<<<0, 0, 0>>, <<1, 0, 0>>, <<1, 1, 0>>, <<0, 1, 0>>>>,
     index    |-> <<0, 1, 2, 0, 2, 3>>]

OpenMesh ==
    [position |-> <<<<0, 0, 0>>, <<2, 0, 0>>, <<1, 2, 0>>, <<3, 2, 0>>>>,
     index    |-> <<0, 1, 2, 1, 3, 2>>]

Fan ==
    [position |-> <<<<1, 1, 0>>, <<0, 0, 0>>, <<2, 0, 0>>, <<2, 2, 0>>,
                    <<0, 2, 0>>>>,
     index    |-> <<0, 1, 2, 0, 2, 3, 0, 3, 4, 0, 4, 1>>]

Tetrahedron ==
    [position |-> <<<<1, 1, 1>>, <<1, -1, -1>>, <<-1, 1, -1>>, <<-1, -1, 1>>>>,
     index    |-> <<0, 1, 2, 0, 3, 1, 0, 2, 3, 1, 3, 2>>]

\* two triangles glued along all three edges (a closed surface)
Pillow ==
    [position |-> <<<<0, 0, 0>>, <<2, 0, 0>>, <<1, 2, 0>>>>,
     index    |-> <<0, 1, 2, 0, 2, 1>>]

Geometries == {Triangle, Quad, OpenMesh, Fan, Tetrahedron, Pillow}

\* two triangles that share no vertex (the disconnected mesh of the
\* shortest-path tests)
Islands ==
    [position |-> <<<<0, 0, 0>>, <<1, 0, 0>>, <<0, 1, 0>>, <<10, 10, 10>>,
                    <<11, 10, 10>>, <<10, 11, 10>>>>,
     index    |-> <<0, 1, 2, 3, 4, 5>>]

\* a disc of five triangles around vertex 0, its rim an uneven pentagon
Wheel ==
    [position |-> <<<<0, 0, 0>>, <<0, 3, 0>>, <<-2, 2, 0>>, <<-2, -3, 0>>,
                    <<2, -3, 0>>, <<3, 1, 0>>>>,
     index    |-> <<0, 1, 2, 0, 2, 3, 0, 3, 4, 0, 4, 5, 0, 5, 1>>]

\* three triangles around vertex 0, which lies on the boundary, listed
\* clockwise around it
HalfDisc ==
    [position |-> <<<<0, 0, 0>>, <<2, 0, 0>>, <<2, 2, 0>>, <<-2, 2, 0>>,
                    <<-2, 0, 0>>>>,
     index    |-> <<0, 3, 4, 0, 2, 3, 0, 1, 2>>]

-----------------------------------------------------------------------------
(* IntrinsicTriangulation.fromBufferGeometry *)

\* source and target vertex of the k-th created halfedge (he01, he12, he20)
IndexSource(g, k) == g.index[3 * (k \div 3) + (k % 3) + 1]
IndexTarget(g, k) == g.index[3 * (k \div 3) + ((k + 1) % 3) + 1]

\* the edgeMap key: the unordered vertex pair
EdgeKey(g, k) == {IndexSource(g, k), IndexTarget(g, k)}

\* getOrCreateEdge: edges are numbered in order of first use
FirstUse(g, k) ==
    Min({j \in 0..(Len(g.index) - 1) : EdgeKey(g, j) = EdgeKey(g, k)})

getOrCreateEdge(g, k) ==
    Cardinality({j \in 0..(FirstUse(g, k) - 1) : FirstUse(g, j) = j})

\* the halfedges grouped by edge (halfedgesByEdge)
HalfedgesOfEdge(g, e) ==
    {k \in 0..(Len(g.index) - 1) : getOrCreateEdge(g, k) = e}

\* the geometry is accepted: triangulated, indices in range, and every edge
\* has one or two halfedges
Accepted(g) ==
    /\ Len(g.index) % 3 = 0
    /\ \A i \in 1..Len(g.index) : g.index[i] \in 0..(Len(g.position) - 1)
    /\ \A k \in 0..(Len(g.index) - 1) :
          Cardinality(HalfedgesOfEdge(g, getOrCreateEdge(g, k))) \in {1, 2}

\* setupTwinHalfedges, first loop: groups of two are twins
setupTwin(g, k) ==
    LET grp == HalfedgesOfEdge(g, getOrCreateEdge(g, k))
    IN IF Cardinality(grp) = 2 THEN CHOOSE j \in grp : j # k ELSE Null

\* vertex.halfedge: first outgoing halfedge seen, then (setupTwinHalfedges,
\* second loop) the last interior halfedge leaving the vertex
setupVertexHalfedge(g, v) ==
    LET out == {k \in 0..(Len(g.index) - 1) : IndexSource(g, k) = v}
        interior == {k \in out : setupTwin(g, k) # Null}
    IN IF interior # {} THEN Max(interior)
       ELSE IF out # {} THEN Min(out) ELSE Null

fromBufferGeometry(g) ==
    LET H == 0..(Len(g.index) - 1)
        E == {getOrCreateEdge(g, k) : k \in H}
    IN [position  |-> [v \in 0..(Len(g.position) - 1) |-> g.position[v + 1]],
        vertex    |-> [k \in H |-> IndexTarget(g, k)],
        edge      |-> [k \in H |-> getOrCreateEdge(g, k)],
        next      |-> [k \in H |-> 3 * (k \div 3) + ((k + 1) % 3)],
        prev      |-> [k \in H |-> 3 * (k \div 3) + ((k + 2) % 3)],
        face      |-> [k \in H |-> k \div 3],
        twin      |-> [k \in H |-> setupTwin(g, k)],
        fHalfedge |-> [f \in 0..((Len(g.index) \div 3) - 1) |-> 3 * f],
        eHalfedge |-> [e \in E |-> Max(HalfedgesOfEdge(g, e))],
        length    |-> [e \in E |->
                         LET k == Min(HalfedgesOfEdge(g, e))
                         IN Distance(g.position[IndexSource(g, k) + 1],
                                     g.position[IndexTarget(g, k) + 1])],
        vHalfedge |-> [v \in 0..(Len(g.position) - 1) |->
                         setupVertexHalfedge(g, v)]]

\* the entity sets of a triangulation
Vertices(t) == DOMAIN t.vHalfedge
Edges(t) == DOMAIN t.eHalfedge
Halfedges(t) == DOMAIN t.vertex
Faces(t) == DOMAIN t.fHalfedge

-----------------------------------------------------------------------------
(* Vertex, Halfedge, Edge *)

\* Vertex.degree: counts the fan walked from the representative halfedge;
\* Null when the vertex has no halfedge, -2 for the thrown safety error
RECURSIVE degreeWalk(_, _, _, _)
degreeWalk(t, start, current, count) ==
    IF t.twin[current] = Null \/ t.next[t.twin[current]] = Null
    THEN count + 1
    ELSE IF count + 1 > WalkLimit THEN -2
    ELSE IF t.next[t.twin[current]] = start THEN count + 1
    ELSE degreeWalk(t, start, t.next[t.twin[current]], count + 1)

degree(t, v) ==
    IF t.vHalfedge[v] = Null THEN Null
    ELSE degreeWalk(t, t.vHalfedge[v], t.vHalfedge[v], 0)

\* Halfedge.getSourceVertex: the twin's target
getSourceVertex(t, h) ==
    IF t.twin[h] = Null THEN Null ELSE t.vertex[t.twin[h]]

\* Edge.getVertices
getVertices(t, e) ==
    LET v0 == getSourceVertex(t, t.eHalfedge[e])
    IN IF v0 = Null THEN <<Null, Null>> ELSE <<v0, t.vertex[t.eHalfedge[e]]>>

\* Edge.isBoundary: halfedge.face === null || halfedge.twin?.face === null
\* (with no twin the right operand is undefined === null, which is false)
isBoundary(t, e) ==
    \/ t.face[t.eHalfedge[e]] = Null
    \/ /\ t.twin[t.eHalfedge[e]] # Null
       /\ t.face[t.twin[t.eHalfedge[e]]] = Null

\* canFlip without the degree test
canFlipAnyDegree(t, e) ==
    IF isBoundary(t, e) THEN FALSE
    ELSE LET vs == getVertices(t, e)
         IN ~(vs[1] = Null \/ vs[2] = Null)

\* Edge.canFlip
canFlip(t, e) ==
    IF isBoundary(t, e) THEN FALSE
    ELSE LET vs == getVertices(t, e)
         IN IF vs[1] = Null \/ vs[2] = Null THEN FALSE
            ELSE LET degree0 == degree(t, vs[1])
                     degree1 == degree(t, vs[2])
                 IN ~(degree0 = Null \/ degree1 = Null
                      \/ degree0 <= 1 \/ degree1 <= 1)

-----------------------------------------------------------------------------
(* IntrinsicTriangulation.flipEdge *)

\* the halfedges, vertices and faces flipEdge reads before any change
Quadrilateral(t, e) ==
    LET h == t.eHalfedge[e]
        hTwin == t.twin[h]
    IN [h |-> h, hTwin |-> hTwin,
        hNext |-> t.next[h], hPrev |-> t.prev[h],
        hTwinNext |-> t.next[hTwin], hTwinPrev |-> t.prev[hTwin],
        vA |-> t.vertex[hTwin], vB |-> t.vertex[h],
        vC |-> t.vertex[t.next[h]], vD |-> t.vertex[t.next[hTwin]],
        f0 |-> t.face[h], f1 |-> t.face[hTwin]]

\* flipEdge passes its checks: canFlip, a twin, two faces
flipEdgeReturns(t, e) ==
    /\ canFlip(t, e)
    /\ t.twin[t.eHalfedge[e]] # Null
    /\ t.face[t.eHalfedge[e]] # Null
    /\ t.face[t.twin[t.eHalfedge[e]]] # Null

\* the new length stored on the edge of hNext instead of the flipped edge
flipLengthOfNext(t, e) ==
    LET q == Quadrilateral(t, e)
    IN [t.length EXCEPT ![t.edge[q.hNext]] =
                           Distance(t.position[q.vC], t.position[q.vD])]

\* edge.length = distance between vC and vD
flipLength(t, e) ==
    LET q == Quadrilateral(t, e)
    IN [t.length EXCEPT ![e] = Distance(t.position[q.vC], t.position[q.vD])]

\* the two new targets swapped
flipVertexSwapped(t, e) ==
    LET q == Quadrilateral(t, e)
    IN [t.vertex EXCEPT ![q.h] = q.vC, ![q.hTwin] = q.vD]

\* h.vertex = vD; hTwin.vertex = vC
flipVertex(t, e) ==
    LET q == Quadrilateral(t, e)
    IN [t.vertex EXCEPT ![q.h] = q.vD, ![q.hTwin] = q.vC]

\* next pointers that do not close two 3-cycles (h.next = hPrev,
\* hPrev.next = h, ...)
flipNextCrossed(t, e) ==
    LET q == Quadrilateral(t, e)
    IN [t.next EXCEPT ![q.h] = q.hPrev,
                      ![q.hTwin] = q.hTwinPrev,
                      ![q.hNext] = q.hTwin,
                      ![q.hPrev] = q.h,
                      ![q.hTwinNext] = q.h,
                      ![q.hTwinPrev] = q.hTwin]

\* the next pointers of the two new face cycles
flipNext(t, e) ==
    LET q == Quadrilateral(t, e)
    IN [t.next EXCEPT ![q.h] = q.hTwinPrev,
                      ![q.hTwinPrev] = q.hNext,
                      ![q.hNext] = q.h,
                      ![q.hTwin] = q.hPrev,
                      ![q.hPrev] = q.hTwinNext,
                      ![q.hTwinNext] = q.hTwin]

\* the prev pointers of the two new face cycles
flipPrev(t, e) ==
    LET q == Quadrilateral(t, e)
    IN [t.prev EXCEPT ![q.h] = q.hNext,
                      ![q.hTwinPrev] = q.h,
                      ![q.hNext] = q.hTwinPrev,
                      ![q.hTwin] = q.hTwinNext,
                      ![q.hPrev] = q.hTwin,
                      ![q.hTwinNext] = q.hPrev]

\* only hNext and hTwinNext reassigned, to the opposite faces
flipFaceCrossed(t, e) ==
    LET q == Quadrilateral(t, e)
    IN [t.face EXCEPT ![q.hNext] = q.f1, ![q.hTwinNext] = q.f0]

\* the face assignments of the six halfedges
flipFace(t, e) ==
    LET q == Quadrilateral(t, e)
    IN [t.face EXCEPT ![q.h] = q.f0,
                      ![q.hTwinPrev] = q.f0,
                      ![q.hNext] = q.f0,
                      ![q.hTwin] = q.f1,
                      ![q.hPrev] = q.f1,
                      ![q.hTwinNext] = q.f1]

\* f0.halfedge = h; f1.halfedge = hTwin
flipFaceHalfedge(t, e) ==
    LET q == Quadrilateral(t, e)
    IN [t.fHalfedge EXCEPT ![q.f0] = q.h, ![q.f1] = q.hTwin]

\* vA and vB handed a halfedge that arrives at them (hPrev, hTwinPrev)
flipVertexHalfedgeArriving(t, e) ==
    LET q == Quadrilateral(t, e)
        afterA == IF t.vHalfedge[q.vA] = q.h
                  THEN [t.vHalfedge EXCEPT ![q.vA] = q.hPrev]
                  ELSE t.vHalfedge
    IN IF afterA[q.vB] = q.hTwin
       THEN [afterA EXCEPT ![q.vB] = q.hTwinPrev]
       ELSE afterA

\* vA and vB get another outgoing halfedge if theirs was the flipped one
flipVertexHalfedge(t, e) ==
    LET q == Quadrilateral(t, e)
        afterA == IF t.vHalfedge[q.vA] = q.h
                  THEN [t.vHalfedge EXCEPT ![q.vA] = q.hTwinNext]
                  ELSE t.vHalfedge
    IN IF afterA[q.vB] = q.hTwin
       THEN [afterA EXCEPT ![q.vB] = q.hNext]
       ELSE afterA

\* the triangulation after flipEdge(e)
flipEdge(t, e) ==
    IF ~flipEdgeReturns(t, e) THEN t
    ELSE [t EXCEPT !.length = flipLength(t, e),
                   !.vertex = flipVertex(t, e),
                   !.next = flipNext(t, e),
                   !.prev = flipPrev(t, e),
                   !.face = flipFace(t, e),
                   !.fHalfedge = flipFaceHalfedge(t, e),
                   !.vHalfedge = flipVertexHalfedge(t, e)]

-----------------------------------------------------------------------------
(* Face *)

\* Face.getVertices: the targets of the three halfedges of the face
faceVertices(t, f) ==
    LET he0 == t.fHalfedge[f]
        he1 == t.next[he0]
        he2 == t.next[he1]
    IN <<t.vertex[he0], t.vertex[he1], t.vertex[he2]>>

\* Face.getEdgeLengths
getEdgeLengths(t, f) ==
    LET he0 == t.fHalfedge[f]
        he1 == t.next[he0]
        he2 == t.next[he1]
    IN <<t.length[t.edge[he0]], t.length[t.edge[he1]], t.length[t.edge[he2]]>>

\* Face.getAngles: the empty tuple stands for null (an angle computation
\* threw)
getAngles(t, f) ==
    LET l == getEdgeLengths(t, f)
        len01 == l[1]
        len12 == l[2]
        len20 == l[3]
        angle0 == angleFromSides(len12, len20, len01)
        angle1 == angleFromSides(len20, len01, len12)
        angle2 == angleFromSides(len01, len12, len20)
    IN IF angle0 = Null \/ angle1 = Null \/ angle2 = Null THEN <<>>
       ELSE <<angle0, angle1, angle2>>

\* Face.getAngleAtVertex
getAngleAtVertex(t, f, v) ==
    LET vs == faceVertices(t, f)
        angles == getAngles(t, f)
    IN IF angles = <<>> THEN Null
       ELSE IF v = vs[1] THEN angles[1]
       ELSE IF v = vs[2] THEN angles[2]
       ELSE IF v = vs[3] THEN angles[3]
       ELSE Null

-----------------------------------------------------------------------------
(* SignpostData *)

\* the do-while of computeSignpostsAtVertex: returns the signposts map
RECURSIVE signpostWalk(_, _, _, _, _, _)
signpostWalk(t, v, start, currentHalfedge, currentAngle, signposts) ==
    LET twin == t.twin[currentHalfedge]
    IN IF twin = Null THEN signposts
       ELSE LET next == t.next[twin]
                face == t.face[twin]
                angleAtVertex == IF face = Null THEN Null
                                 ELSE getAngleAtVertex(t, face, v)
                angle == IF angleAtVertex = Null THEN currentAngle
                         ELSE currentAngle + angleAtVertex
                recorded == [signposts EXCEPT ![next] = angle]
            IN IF next = start THEN recorded
               ELSE signpostWalk(t, v, start, next, angle, recorded)

computeSignpostsAtVertex(t, sp, v) ==
    LET startHalfedge == t.vHalfedge[v]
    IN IF startHalfedge = Null THEN sp
       ELSE [referenceHalfedges |->
                [sp.referenceHalfedges EXCEPT ![v] = startHalfedge],
             signposts |->
                signpostWalk(t, v, startHalfedge, startHalfedge, 0,
                             [sp.signposts EXCEPT ![startHalfedge] = 0])]

\* computeSignpostsAtVertex for a sequence of vertices, in order
RECURSIVE computeSignpostsAt(_, _, _)
computeSignpostsAt(t, sp, vs) ==
    IF vs = <<>> THEN sp
    ELSE computeSignpostsAt(t, computeSignpostsAtVertex(t, sp, Head(vs)),
                            Tail(vs))

\* new SignpostData(triangulation): empty maps, then initialize()
initialize(t) ==
    computeSignpostsAt(t,
        [referenceHalfedges |-> [v \in Vertices(t) |-> Null],
         signposts |-> [h \in Halfedges(t) |-> Null]],
        [i \in 1..Cardinality(Vertices(t)) |-> i - 1])

\* updateAfterFlip recomputing every vertex of the mesh
updateAfterFlipEverywhere(t, sp, e) ==
    LET he == t.eHalfedge[e]
        heTwin == t.twin[he]
    IN IF heTwin = Null THEN sp
       ELSE computeSignpostsAt(t, sp,
               [i \in 1..Cardinality(Vertices(t)) |-> i - 1])

\* SignpostData.updateAfterFlip
updateAfterFlip(t, sp, e) ==
    LET he == t.eHalfedge[e]
        heTwin == t.twin[he]
    IN IF heTwin = Null THEN sp
       ELSE computeSignpostsAt(t, sp,
               <<t.vertex[he], t.vertex[heTwin],
                 t.vertex[t.next[he]], t.vertex[t.next[heTwin]]>>)

\* SignpostData.getAngleBetween: the error raised, "" when it returns
getAngleBetweenError(t, sp, from, to) ==
    IF t.vertex[from] # t.vertex[to] THEN "Halfedges must share a vertex"
    ELSE IF sp.signposts[from] = Null \/ sp.signposts[to] = Null
         THEN "No signpost data"
    ELSE ""

\* SignpostData.getAngleBetween: the value returned (Null when it raises)
getAngleBetween(t, sp, from, to) ==
    IF getAngleBetweenError(t, sp, from, to) # "" THEN Null
    ELSE (sp.signposts[to] - sp.signposts[from]) % (2 * PI)

-----------------------------------------------------------------------------
(* DijkstraShortestPath and its MinHeap *)

\* the walk over the outgoing halfedges of a vertex that getNeighbors,
\* findEdgeBetween and getOutgoingHalfedgesSorted all make: from the
\* representative halfedge by twin.next until the start comes back or a
\* twin is missing
RECURSIVE outgoingWalk(_, _, _, _)
outgoingWalk(t, startHe, currentHe, acc) ==
    LET twin == t.twin[currentHe]
    IN IF twin = Null THEN Append(acc, currentHe)
       ELSE IF t.next[twin] = startHe THEN Append(acc, currentHe)
       ELSE outgoingWalk(t, startHe, t.next[twin], Append(acc, currentHe))

\* DijkstraShortestPath.getNeighbors: (neighbour, edge) pairs in walk order
getNeighbors(t, v) ==
    IF t.vHalfedge[v] = Null THEN <<>>
    ELSE LET w == outgoingWalk(t, t.vHalfedge[v], t.vHalfedge[v], <<>>)
         IN [i \in 1..Len(w) |-> [vertex |-> t.vertex[w[i]],
                                  edge |-> t.edge[w[i]]]]

\* DijkstraShortestPath.findEdgeBetween: the edge of the first walked
\* halfedge that arrives at v2
findEdgeBetween(t, v1, v2) ==
    IF t.vHalfedge[v1] = Null THEN Null
    ELSE LET w == outgoingWalk(t, t.vHalfedge[v1], t.vHalfedge[v1], <<>>)
             hits == {i \in 1..Len(w) : t.vertex[w[i]] = v2}
         IN IF hits = {} THEN Null ELSE t.edge[w[Min(hits)]]

\* swaps two entries of the heap array (indices from 0)
heapSwap(heap, i, j) ==
    [heap EXCEPT ![i + 1] = heap[j + 1], ![j + 1] = heap[i + 1]]

\* MinHeap.bubbleUp
RECURSIVE bubbleUp(_, _)
bubbleUp(heap, index) ==
    IF index <= 0 THEN heap
    ELSE LET parentIndex == (index - 1) \div 2
         IN IF heap[index + 1].distance >= heap[parentIndex + 1].distance
            THEN heap
            ELSE bubbleUp(heapSwap(heap, index, parentIndex), parentIndex)

\* MinHeap.bubbleDown
RECURSIVE bubbleDown(_, _)
bubbleDown(heap, index) ==
    LET leftChild == 2 * index + 1
        rightChild == 2 * index + 2
        afterLeft == IF leftChild < Len(heap)
                        /\ heap[leftChild + 1].distance < heap[index + 1].distance
                     THEN leftChild ELSE index
        smallest == IF rightChild < Len(heap)
                       /\ heap[rightChild + 1].distance
                            < heap[afterLeft + 1].distance
                    THEN rightChild ELSE afterLeft
    IN IF smallest = index THEN heap
       ELSE bubbleDown(heapSwap(heap, index, smallest), smallest)

\* MinHeap.push
heapPush(heap, entry) == bubbleUp(Append(heap, entry), Len(heap))

\* MinHeap.pop: the heap that remains (the minimum returned is heap[1])
heapPop(heap) ==
    LET last == heap[Len(heap)]
        rest == SubSeq(heap, 1, Len(heap) - 1)
    IN IF Len(rest) > 0 THEN bubbleDown([rest EXCEPT ![1] = last], 0)
       ELSE rest

\* the parent recorded for a source vertex (parents.set(sourceId, null))
Root == -2

\* the neighbour loop that keeps the parent a vertex was first reached from
RECURSIVE relaxKeepFirstParent(_, _, _, _, _)
relaxKeepFirstParent(t, d, currentId, currentDist, neighbors) ==
    IF neighbors = <<>> THEN d
    ELSE LET n == Head(neighbors)
             newDist == currentDist + t.length[n.edge]
             oldDist == d.distances[n.vertex]
         IN IF n.vertex \in d.visited
            THEN relaxKeepFirstParent(t, d, currentId, currentDist,
                                      Tail(neighbors))
            ELSE IF oldDist = Null \/ newDist < oldDist
            THEN relaxKeepFirstParent(t,
                       [d EXCEPT !.distances[n.vertex] = newDist,
                                 !.parents[n.vertex] =
                                     IF oldDist = Null THEN currentId ELSE @,
                                 !.queue = heapPush(d.queue,
                                              [vertexId |-> n.vertex,
                                               distance |-> newDist])],
                       currentId, currentDist, Tail(neighbors))
            ELSE relaxKeepFirstParent(t, d, currentId, currentDist,
                                      Tail(neighbors))

\* runDijkstra: the loop over the neighbours of the popped vertex
RECURSIVE relax(_, _, _, _, _)
relax(t, d, currentId, currentDist, neighbors) ==
    IF neighbors = <<>> THEN d
    ELSE LET n == Head(neighbors)
             newDist == currentDist + t.length[n.edge]
             oldDist == d.distances[n.vertex]
         IN IF n.vertex \in d.visited
            THEN relax(t, d, currentId, currentDist, Tail(neighbors))
            ELSE IF oldDist = Null \/ newDist < oldDist
            THEN relax(t,
                       [d EXCEPT !.distances[n.vertex] = newDist,
                                 !.parents[n.vertex] = currentId,
                                 !.queue = heapPush(d.queue,
                                              [vertexId |-> n.vertex,
                                               distance |-> newDist])],
                       currentId, currentDist, Tail(neighbors))
            ELSE relax(t, d, currentId, currentDist, Tail(neighbors))

\* runDijkstra: the while loop over the queue (targetId Null: no target)
RECURSIVE dijkstraLoop(_, _, _)
dijkstraLoop(t, d, targetId) ==
    IF d.queue = <<>> THEN d
    ELSE LET current == d.queue[1]
             popped == [d EXCEPT !.queue = heapPop(d.queue)]
         IN IF current.vertexId \in d.visited
            THEN dijkstraLoop(t, popped, targetId)
            ELSE LET seen == [popped EXCEPT
                                !.visited = @ \cup {current.vertexId}]
                 IN IF targetId # Null /\ current.vertexId = targetId
                    THEN [seen EXCEPT !.targetReached = TRUE]
                    ELSE dijkstraLoop(t,
                            relax(t, seen, current.vertexId, current.distance,
                                  getNeighbors(t, current.vertexId)),
                            targetId)

\* runDijkstra: sources at distance 0
RECURSIVE dijkstraSources(_, _)
dijkstraSources(d, sourceIds) ==
    IF sourceIds = <<>> THEN d
    ELSE dijkstraSources(
            [d EXCEPT !.distances[Head(sourceIds)] = 0,
                      !.parents[Head(sourceIds)] = Root,
                      !.queue = heapPush(d.queue,
                                   [vertexId |-> Head(sourceIds),
                                    distance |-> 0])],
            Tail(sourceIds))

\* DijkstraShortestPath.runDijkstra: distances, parents, targetReached
runDijkstra(t, sourceIds, targetId) ==
    LET start == [distances |-> [v \in Vertices(t) |-> Null],
                  parents |-> [v \in Vertices(t) |-> Null],
                  visited |-> {},
                  queue |-> <<>>,
                  targetReached |-> FALSE]
        d == dijkstraLoop(t, dijkstraSources(start, sourceIds), targetId)
    IN [distances |-> d.distances,
        parents |-> d.parents,
        targetReached |-> IF targetId = Null THEN TRUE ELSE d.targetReached]

\* computeShortestPathTree(sourceIds): runDijkstra without a target
computeShortestPathTree(t, sourceIds) == runDijkstra(t, sourceIds, Null)

\* reconstructPath: the backtrack from the target over the parents; <<>>
\* stands for the broken path
RECURSIVE backtrack(_, _, _, _)
backtrack(result, sourceId, current, vertexPath) ==
    IF current = Root THEN vertexPath
    ELSE IF current = sourceId THEN <<current>> \o vertexPath
    ELSE IF result.parents[current] = Null THEN <<>>
    ELSE backtrack(result, sourceId, result.parents[current],
                   <<current>> \o vertexPath)

\* GeodesicPath.computeLength / GeodesicLoop.computeLength
RECURSIVE computeLength(_, _)
computeLength(t, edges) ==
    IF edges = <<>> THEN 0
    ELSE t.length[Head(edges)] + computeLength(t, Tail(edges))

\* new GeodesicPath(edges, startVertex, endVertex)
GeodesicPath(t, edges, startVertex, endVertex) ==
    [edges |-> edges, startVertex |-> startVertex, endVertex |-> endVertex,
     cachedLength |-> computeLength(t, edges)]

\* the null a path-returning method gives, as a record of the same shape
NoPath ==
    [edges |-> <<>>, startVertex |-> Null, endVertex |-> Null,
     cachedLength |-> 0]

\* reconstructPath that accepts a vertex path of any length
reconstructPathAnyLength(t, sourceId, targetId, result) ==
    LET vertexPath == backtrack(result, sourceId, targetId, <<>>)
    IN IF vertexPath = <<>> THEN NoPath
       ELSE IF vertexPath[1] # sourceId THEN NoPath
       ELSE LET edges == [i \in 1..(Len(vertexPath) - 1) |->
                            findEdgeBetween(t, vertexPath[i],
                                            vertexPath[i + 1])]
            IN IF \E i \in 1..Len(edges) : edges[i] = Null THEN NoPath
               ELSE GeodesicPath(t, edges, sourceId, targetId)

\* DijkstraShortestPath.reconstructPath: NoPath when the path is broken,
\* does not start at the source, has fewer than two vertices or misses an
\* edge
reconstructPath(t, sourceId, targetId, result) ==
    LET vertexPath == backtrack(result, sourceId, targetId, <<>>)
    IN IF vertexPath = <<>> THEN NoPath
       ELSE IF vertexPath[1] # sourceId THEN NoPath
       ELSE IF Len(vertexPath) < 2 THEN NoPath
       ELSE LET edges == [i \in 1..(Len(vertexPath) - 1) |->
                            findEdgeBetween(t, vertexPath[i],
                                            vertexPath[i + 1])]
            IN IF \E i \in 1..Len(edges) : edges[i] = Null THEN NoPath
               ELSE GeodesicPath(t, edges, sourceId, targetId)

\* DijkstraShortestPath.computePath
computePath(t, sourceId, targetId) ==
    LET result == runDijkstra(t, <<sourceId>>, targetId)
    IN IF ~result.targetReached THEN NoPath
       ELSE reconstructPath(t, sourceId, targetId, result)

\* DijkstraShortestPath.computePiecewisePath: the segments found so far,
\* <<>> standing for null (a segment without a path)
RECURSIVE piecewiseSegments(_, _, _, _)
piecewiseSegments(t, waypoints, i, paths) ==
    IF i > Len(waypoints) - 1 THEN paths
    ELSE LET segment == computePath(t, waypoints[i], waypoints[i + 1])
         IN IF segment = NoPath THEN <<>>
            ELSE piecewiseSegments(t, waypoints, i + 1, Append(paths, segment))

\* DijkstraShortestPath.computePiecewisePath (two waypoints or more)
computePiecewisePath(t, waypoints) == piecewiseSegments(t, waypoints, 1, <<>>)

-----------------------------------------------------------------------------
(* GeodesicPath *)

\* Edge.getOtherVertex
getOtherVertex(t, e, v) ==
    LET other(vs) ==
            IF vs[1] = Null \/ vs[2] = Null THEN Null
            ELSE IF v = vs[1] THEN vs[2]
            ELSE IF v = vs[2] THEN vs[1]
            ELSE Null
    IN other(getVertices(t, e))

\* GeodesicPath.getVertices: the loop over the edges; error stands for the
\* exception 'Edge has invalid vertices'
RECURSIVE pathWalk(_, _, _, _)
pathWalk(t, edges, currentVertex, vertices) ==
    LET step(nextVertex, edgeVertices) ==
            IF nextVertex # Null
            THEN pathWalk(t, Tail(edges), nextVertex,
                          Append(vertices, nextVertex))
            ELSE IF edgeVertices[1] = Null \/ edgeVertices[2] = Null
            THEN [error |-> TRUE, vertices |-> <<>>]
            ELSE IF edgeVertices[1] = currentVertex
            THEN pathWalk(t, Tail(edges), edgeVertices[2],
                          Append(vertices, edgeVertices[2]))
            ELSE pathWalk(t, Tail(edges), edgeVertices[1],
                          Append(vertices, edgeVertices[1]))
    IN IF edges = <<>> THEN [error |-> FALSE, vertices |-> vertices]
       ELSE step(getOtherVertex(t, Head(edges), currentVertex),
                 getVertices(t, Head(edges)))

\* GeodesicPath.getVertices
pathVertices(t, path) ==
    pathWalk(t, path.edges, path.startVertex, <<path.startVertex>>)

\* GeodesicPath.getInteriorVertices: getVertices().slice(1, -1)
getInteriorVertices(t, path) ==
    LET interior(vs) ==
            [error |-> vs.error,
             vertices |-> IF vs.error THEN <<>>
                          ELSE SubSeq(vs.vertices, 2, Len(vs.vertices) - 1)]
    IN interior(pathVertices(t, path))

\* Array.findIndex of a vertex in a vertex sequence: from 0, -1 when absent
findIndex(vertices, v) ==
    LET first(hits) == IF hits = {} THEN -1 ELSE Min(hits) - 1
    IN first({i \in 1..Len(vertices) : vertices[i] = v})

\* GeodesicPath.getVertexIndex
getVertexIndex(t, path, v) ==
    LET index(vs) ==
            [error |-> vs.error,
             index |-> IF vs.error THEN -1 ELSE findIndex(vs.vertices, v)]
    IN index(pathVertices(t, path))

\* GeodesicPath.getAngleAtVertex: Null when it throws, else the value
pathAngleAtVertex(t, path, v) ==
    LET angle(at) ==
            IF at.error THEN Null
            ELSE IF at.index <= 0 \/ at.index >= Len(path.edges) THEN Null
            ELSE PI
    IN angle(getVertexIndex(t, path, v))

\* GeodesicPath.updateLength
updateLength(t, path) ==
    [path EXCEPT !.cachedLength = computeLength(t, path.edges)]

-----------------------------------------------------------------------------
(* SignpostData: the sorted fan and the wedge test *)

\* Array.sort by signpost angle (stable): the insertion of one halfedge
RECURSIVE sortedInsert(_, _, _)
sortedInsert(sp, sorted, h) ==
    IF sorted = <<>> THEN <<h>>
    ELSE IF sp.signposts[h] < sp.signposts[Head(sorted)]
    THEN <<h>> \o sorted
    ELSE <<Head(sorted)>> \o sortedInsert(sp, Tail(sorted), h)

RECURSIVE sortByAngle(_, _, _)
sortByAngle(sp, halfedges, sorted) ==
    IF halfedges = <<>> THEN sorted
    ELSE sortByAngle(sp, Tail(halfedges),
                     sortedInsert(sp, sorted, Head(halfedges)))

\* SignpostData.getOutgoingHalfedgesSorted; error stands for the exception
\* of getAngle on a halfedge without a signpost
getOutgoingHalfedgesSorted(t, sp, v) ==
    LET sorted(w) ==
            IF Len(w) > 1 /\ \E i \in 1..Len(w) : sp.signposts[w[i]] = Null
            THEN [error |-> TRUE, halfedges |-> <<>>]
            ELSE [error |-> FALSE, halfedges |-> sortByAngle(sp, w, <<>>)]
    IN IF t.vHalfedge[v] = Null THEN [error |-> FALSE, halfedges |-> <<>>]
       ELSE sorted(outgoingWalk(t, t.vHalfedge[v], t.vHalfedge[v], <<>>))

\* SignpostData.isAngleBetween
isAngleBetween(angle, start, end) ==
    LET between(normAngle, normStart, normEnd) ==
            IF normStart <= normEnd
            THEN normAngle >= normStart /\ normAngle < normEnd
            ELSE normAngle >= normStart \/ normAngle < normEnd
    IN between(angle % (2 * PI), start % (2 * PI), end % (2 * PI))

-----------------------------------------------------------------------------
(* FlipEdgeNetwork *)

\* new FlipEdgeNetwork(triangulation, paths, markedVertices)
FlipEdgeNetwork(paths, markedVertices) ==
    [kind |-> "paths", paths |-> paths, markedVertices |-> markedVertices,
     loop |-> NoPath, calls |-> 0]

\* fromPiecewiseDijkstraPath: the interior waypoints, marked on request
markedWaypoints(waypoints, markInterior) ==
    IF markInterior
    THEN {waypoints[i] : i \in 2..(Len(waypoints) - 1)}
    ELSE {}

\* FlipEdgeNetwork.getLength
RECURSIVE getLength(_)
getLength(paths) ==
    IF paths = <<>> THEN 0
    ELSE Head(paths).cachedLength + getLength(Tail(paths))

\* FlipEdgeNetwork.isLocallyGeodesic
isLocallyGeodesic(t, v, path) ==
    LET geodesic(angle) == IF angle = Null THEN TRUE ELSE angle >= PI
    IN geodesic(pathAngleAtVertex(t, path, v))

\* findFlexibleJoint: the scan of the interior vertices of one path
RECURSIVE jointAmong(_, _, _, _)
jointAmong(t, net, path, vertices) ==
    IF vertices = <<>> THEN Null
    ELSE IF Head(vertices) \in net.markedVertices
    THEN jointAmong(t, net, path, Tail(vertices))
    ELSE IF ~isLocallyGeodesic(t, Head(vertices), path)
    THEN Head(vertices)
    ELSE jointAmong(t, net, path, Tail(vertices))

\* findFlexibleJoint: the loop over the paths
RECURSIVE jointOfPaths(_, _, _)
jointOfPaths(t, net, paths) ==
    LET found(joint) ==
            IF joint # Null THEN [error |-> FALSE, vertex |-> joint]
            ELSE jointOfPaths(t, net, Tail(paths))
        scan(interior) ==
            IF interior.error THEN [error |-> TRUE, vertex |-> Null]
            ELSE found(jointAmong(t, net, Head(paths), interior.vertices))
    IN IF paths = <<>> THEN [error |-> FALSE, vertex |-> Null]
       ELSE scan(getInteriorVertices(t, Head(paths)))

\* FlipEdgeNetwork.findFlexibleJoint
findFlexibleJoint(t, net) == jointOfPaths(t, net, net.paths)

\* paths.find((p) => p.containsVertex(vertex)): the position of the first
\* path that contains v, 0 when there is none; error when getVertices of a
\* path examined on the way throws
RECURSIVE findPathWith(_, _, _, _)
findPathWith(t, paths, k, v) ==
    LET contains(index) ==
            IF index.error THEN [error |-> TRUE, at |-> 0]
            ELSE IF index.index # -1 THEN [error |-> FALSE, at |-> k]
            ELSE findPathWith(t, paths, k + 1, v)
    IN IF k > Len(paths) THEN [error |-> FALSE, at |-> 0]
       ELSE contains(getVertexIndex(t, paths[k], v))

\* FlipEdgeNetwork.getPathEdgesAtVertex: <<>> stands for null
getPathEdgesAtVertex(t, v, path) ==
    LET edgesAt(index) ==
            IF index <= 0 \/ index >= Len(path.edges) THEN <<>>
            ELSE <<path.edges[index], path.edges[index + 1]>>
    IN edgesAt(getVertexIndex(t, path, v).index)

\* FlipEdgeNetwork.getHalfedgeAtVertex
getHalfedgeAtVertex(t, e, v) ==
    LET he == t.eHalfedge[e]
        heTwin == t.twin[he]
    IN IF t.vertex[he] = v THEN heTwin
       ELSE IF heTwin # Null /\ t.vertex[heTwin] = v THEN he
       ELSE Null

\* getWedgeEdges: the loop over the sorted halfedges
RECURSIVE wedgeAmong(_, _, _, _, _, _, _)
wedgeAmong(t, sp, halfedges, inAngle, outAngle, incomingEdge, outgoingEdge) ==
    LET with(he, rest) ==
            IF /\ isAngleBetween(sp.signposts[he], inAngle, outAngle)
               /\ t.edge[he] # incomingEdge
               /\ t.edge[he] # outgoingEdge
            THEN <<t.edge[he]>> \o rest
            ELSE rest
    IN IF halfedges = <<>> THEN <<>>
       ELSE with(Head(halfedges),
                 wedgeAmong(t, sp, Tail(halfedges), inAngle, outAngle,
                            incomingEdge, outgoingEdge))

\* FlipEdgeNetwork.getWedgeEdges; error stands for the exception of
\* getAngle on a halfedge without a signpost
getWedgeEdges(t, sp, v, incomingEdge, outgoingEdge) ==
    LET wedge(inHe, outHe, all) ==
            IF inHe = Null \/ outHe = Null
            THEN [error |-> FALSE, edges |-> <<>>]
            ELSE IF sp.signposts[inHe] = Null \/ sp.signposts[outHe] = Null
            THEN [error |-> TRUE, edges |-> <<>>]
            ELSE IF all.error THEN [error |-> TRUE, edges |-> <<>>]
            ELSE IF \E i \in 1..Len(all.halfedges) :
                        sp.signposts[all.halfedges[i]] = Null
            THEN [error |-> TRUE, edges |-> <<>>]
            ELSE [error |-> FALSE,
                  edges |-> wedgeAmong(t, sp, all.halfedges,
                                       sp.signposts[inHe], sp.signposts[outHe],
                                       incomingEdge, outgoingEdge)]
    IN wedge(getHalfedgeAtVertex(t, incomingEdge, v),
             getHalfedgeAtVertex(t, outgoingEdge, v),
             getOutgoingHalfedgesSorted(t, sp, v))

\* what one turn of the flip loop did to a wedge edge: whether flipEdge was
\* called, what it returned, and the triangulation and signposts before and
\* after the turn
Attempt(e, called, returned, t, sp, t2, sp2) ==
    [edge |-> e, called |-> called, returned |-> returned,
     before |-> [triangulation |-> t, signpostData |-> sp],
     after |-> [triangulation |-> t2, signpostData |-> sp2]]

\* flipOut's loop over the wedge edges without the signpost update
RECURSIVE flipWedgeMeshOnly(_, _, _, _, _, _, _)
flipWedgeMeshOnly(t, sp, wedgeEdges, incomingEdge, outgoingEdge, flippedCount, attempts) ==
    IF wedgeEdges = <<>>
    THEN [triangulation |-> t, signpostData |-> sp,
          flippedCount |-> flippedCount, attempts |-> attempts]
    ELSE The({
        IF edge = incomingEdge \/ edge = outgoingEdge
        THEN flipWedgeMeshOnly(t, sp, Tail(wedgeEdges), incomingEdge,
                               outgoingEdge, flippedCount, attempts)
        ELSE IF \/ t.twin[t.eHalfedge[edge]] = Null
                \/ t.face[t.eHalfedge[edge]] = Null
                \/ t.face[t.twin[t.eHalfedge[edge]]] = Null
        THEN flipWedgeMeshOnly(t, sp, Tail(wedgeEdges), incomingEdge,
                               outgoingEdge, flippedCount,
                               Append(attempts,
                                      Attempt(edge, FALSE, FALSE, t, sp, t,
                                              sp)))
        ELSE The({
                flipWedgeMeshOnly(t2, sp, Tail(wedgeEdges), incomingEdge,
                                  outgoingEdge, flippedCount + 1,
                                  Append(attempts,
                                         Attempt(edge, TRUE, t2 # t, t, sp,
                                                 t2, sp)))
                : t2 \in {flipEdge(t, edge)}})
        : edge \in {Head(wedgeEdges)}})

\* flipOut: the loop over the wedge edges
RECURSIVE flipWedge(_, _, _, _, _, _, _)
flipWedge(t, sp, wedgeEdges, incomingEdge, outgoingEdge, flippedCount, attempts) ==
    IF wedgeEdges = <<>>
    THEN [triangulation |-> t, signpostData |-> sp,
          flippedCount |-> flippedCount, attempts |-> attempts]
    ELSE The({
        IF edge = incomingEdge \/ edge = outgoingEdge
        THEN flipWedge(t, sp, Tail(wedgeEdges), incomingEdge, outgoingEdge,
                       flippedCount, attempts)
        ELSE IF \/ t.twin[t.eHalfedge[edge]] = Null
                \/ t.face[t.eHalfedge[edge]] = Null
                \/ t.face[t.twin[t.eHalfedge[edge]]] = Null
        THEN flipWedge(t, sp, Tail(wedgeEdges), incomingEdge, outgoingEdge,
                       flippedCount,
                       Append(attempts,
                              Attempt(edge, FALSE, FALSE, t, sp, t, sp)))
        ELSE The({The({
                flipWedge(t2, sp2, Tail(wedgeEdges), incomingEdge,
                          outgoingEdge, flippedCount + 1,
                          Append(attempts,
                                 Attempt(edge, TRUE, t2 # t, t, sp, t2, sp2)))
                : sp2 \in {updateAfterFlip(t2, sp, edge)}})
                : t2 \in {flipEdge(t, edge)}})
        : edge \in {Head(wedgeEdges)}})

\* what flipOut gives when it changes nothing: it returns false or throws
flipOutNothing(t, sp, net, error) ==
    [error |-> error, ret |-> FALSE, triangulation |-> t,
     signpostData |-> sp, network |-> net, attempts |-> <<>>]

\* FlipEdgeNetwork.flipOut
flipOut(t, sp, net, v) ==
    The({
        IF found.error THEN flipOutNothing(t, sp, net, TRUE)
        ELSE IF found.at = 0 THEN flipOutNothing(t, sp, net, FALSE)
        ELSE The({
            IF pathEdges = <<>> THEN flipOutNothing(t, sp, net, FALSE)
            ELSE The({
                IF wedgeEdges.error THEN flipOutNothing(t, sp, net, TRUE)
                ELSE The({
                    [error |-> FALSE,
                     ret |-> done.flippedCount > 0,
                     triangulation |-> done.triangulation,
                     signpostData |-> done.signpostData,
                     network |->
                        [net EXCEPT !.paths[found.at] =
                            updateLength(done.triangulation,
                                         net.paths[found.at])],
                     attempts |-> done.attempts]
                    : done \in {flipWedge(t, sp, wedgeEdges.edges,
                                          pathEdges[1], pathEdges[2], 0,
                                          <<>>)}})
                : wedgeEdges \in {getWedgeEdges(t, sp, v, pathEdges[1],
                                                pathEdges[2])}})
            : pathEdges \in {getPathEdgesAtVertex(t, v, net.paths[found.at])}})
        : found \in {findPathWith(t, net.paths, 1, v)}})

\* the convergence threshold 1e-10 on the fixed-point scale of the lengths:
\* only a change of zero is below it
convergenceThreshold == 1

\* what iterativeShorten gives: the iteration count it returns (or the
\* exception), and the state it leaves
shortened(error, iterations, t, sp, net) ==
    [error |-> error, iterations |-> iterations, triangulation |-> t,
     signpostData |-> sp, network |-> net]

\* iterativeShorten: the while loop
RECURSIVE shortenLoop(_, _, _, _, _, _)
shortenLoop(t, sp, net, iteration, prevLength, maxIter) ==
    IF ~(iteration < maxIter) THEN shortened(FALSE, iteration, t, sp, net)
    ELSE The({
        IF flexibleJoint.error THEN shortened(TRUE, iteration, t, sp, net)
        ELSE IF flexibleJoint.vertex = Null
        THEN shortened(FALSE, iteration, t, sp, net)
        ELSE The({
            IF flipped.error THEN shortened(TRUE, iteration, t, sp, net)
            ELSE IF ~flipped.ret
            THEN shortened(FALSE, iteration, flipped.triangulation,
                           flipped.signpostData, flipped.network)
            ELSE The({
                IF Abs(currentLength - prevLength) < convergenceThreshold
                THEN shortened(FALSE, iteration + 1, flipped.triangulation,
                               flipped.signpostData, flipped.network)
                ELSE shortenLoop(flipped.triangulation, flipped.signpostData,
                                 flipped.network, iteration + 1,
                                 currentLength, maxIter)
                : currentLength \in {getLength(flipped.network.paths)}})
            : flipped \in {flipOut(t, sp, net, flexibleJoint.vertex)}})
        : flexibleJoint \in {findFlexibleJoint(t, net)}})

\* FlipEdgeNetwork.iterativeShorten(maxIterations)
iterativeShorten(t, sp, net, maxIter) ==
    shortenLoop(t, sp, net, 0, getLength(net.paths), maxIter)

-----------------------------------------------------------------------------
(* GeodesicLoop *)

\* what new GeodesicLoop(edges, baseVertex) throws, "" when it returns:
\* the length test of the constructor and validateClosure
GeodesicLoopError(t, edges, baseVertex) ==
    IF Len(edges) < 3 THEN "A geodesic loop must have at least 3 edges"
    ELSE The({The({
        IF first[1] = Null \/ first[2] = Null
        THEN "First edge has invalid vertices"
        ELSE IF baseVertex \notin {first[1], first[2]}
        THEN "First edge must be connected to baseVertex"
        ELSE IF last[1] = Null \/ last[2] = Null
        THEN "Last edge has invalid vertices"
        ELSE IF baseVertex \notin {last[1], last[2]}
        THEN "Last edge must be connected to baseVertex"
        ELSE ""
        : last \in {getVertices(t, edges[Len(edges)])}})
        : first \in {getVertices(t, edges[1])}})

\* new GeodesicLoop(edges, baseVertex): the base vertex is both ends
GeodesicLoop(t, edges, baseVertex) ==
    GeodesicPath(t, edges, baseVertex, baseVertex)

\* GeodesicLoop.getVertices: the loop over the edges, which does not push
\* the far end of the last edge; error stands for the exception
\* 'Edge i has invalid vertices'
RECURSIVE loopWalk(_, _, _, _)
loopWalk(t, edges, currentVertex, vertices) ==
    IF edges = <<>> THEN [error |-> FALSE, vertices |-> vertices]
    ELSE The({The({
        IF nextVertex # Null
        THEN loopWalk(t, Tail(edges), nextVertex,
                      IF Len(edges) > 1 THEN Append(vertices, nextVertex)
                      ELSE vertices)
        ELSE IF edgeVertices[1] = Null \/ edgeVertices[2] = Null
        THEN [error |-> TRUE, vertices |-> <<>>]
        ELSE The({
            loopWalk(t, Tail(edges), fallbackNext,
                     IF Len(edges) > 1 THEN Append(vertices, fallbackNext)
                     ELSE vertices)
            : fallbackNext \in {IF edgeVertices[1] = currentVertex
                                THEN edgeVertices[2] ELSE edgeVertices[1]}})
        : edgeVertices \in {getVertices(t, Head(edges))}})
        : nextVertex \in {getOtherVertex(t, Head(edges), currentVertex)}})

\* GeodesicLoop.getVertices
loopVertices(t, loop) ==
    loopWalk(t, loop.edges, loop.startVertex, <<loop.startVertex>>)

\* GeodesicLoop.getEdgesAtVertex: <<incoming, outgoing>>, <<>> for null
getEdgesAtVertex(t, loop, v) ==
    The({
        IF vs.error THEN [error |-> TRUE, edges |-> <<>>]
        ELSE The({
            IF index = -1 THEN [error |-> FALSE, edges |-> <<>>]
            ELSE [error |-> FALSE,
                  edges |-> <<loop.edges[IF index = 0 THEN Len(loop.edges)
                                         ELSE index],
                              loop.edges[index + 1]>>]
            : index \in {findIndex(vs.vertices, v)}})
        : vs \in {loopVertices(t, loop)}})

\* GeodesicLoop.getHalfedgePointingTo
getHalfedgePointingTo(t, e, v) ==
    The({
        IF t.vertex[he] = v THEN he
        ELSE IF t.twin[he] # Null /\ t.vertex[t.twin[he]] = v THEN t.twin[he]
        ELSE Null
        : he \in {t.eHalfedge[e]}})

\* GeodesicLoop.getHalfedgePointingFrom
getHalfedgePointingFrom(t, e, v) ==
    The({
        IF getSourceVertex(t, he) # Null /\ getSourceVertex(t, he) = v THEN he
        ELSE IF /\ t.twin[he] # Null
                /\ getSourceVertex(t, t.twin[he]) # Null
                /\ getSourceVertex(t, t.twin[he]) = v
        THEN t.twin[he]
        ELSE Null
        : he \in {t.eHalfedge[e]}})

\* GeodesicLoop.getAngleAtVertex: Null when it throws, else the angle from
\* the twin of the incoming halfedge to the outgoing halfedge
loopAngleAtVertex(t, sp, loop, v) ==
    The({
        IF at.error \/ at.edges = <<>> THEN Null
        ELSE The({The({
            IF incomingHe = Null \/ outgoingHe = Null THEN Null
            ELSE IF t.twin[incomingHe] = Null THEN Null
            ELSE getAngleBetween(t, sp, t.twin[incomingHe], outgoingHe)
            : outgoingHe \in {getHalfedgePointingFrom(t, at.edges[2], v)}})
            : incomingHe \in {getHalfedgePointingTo(t, at.edges[1], v)}})
        : at \in {getEdgesAtVertex(t, loop, v)}})

-----------------------------------------------------------------------------
(* GeodesicLoopNetwork, with optimizeOrder off *)

\* sequentialOrdering: the loop over the input edges; error stands for the
\* TypeError of reading the id of the missing first vertex
RECURSIVE orderEdges(_, _, _, _)
orderEdges(t, edges, currentVertex, waypoints) ==
    IF edges = <<>> THEN [error |-> FALSE, waypoints |-> waypoints]
    ELSE The({
        IF vs[1] = Null \/ vs[2] = Null
        THEN orderEdges(t, Tail(edges), currentVertex, waypoints)
        ELSE IF currentVertex = Null
        THEN [error |-> TRUE, waypoints |-> <<>>]
        ELSE IF vs[1] = currentVertex
        THEN orderEdges(t, Tail(edges), vs[2], Append(waypoints, vs[2]))
        ELSE orderEdges(t, Tail(edges), vs[2], waypoints \o <<vs[1], vs[2]>>)
        : vs \in {getVertices(t, Head(edges))}})

\* GeodesicLoopNetwork.sequentialOrdering: the ordered waypoints, closed
\* with the first one
sequentialOrdering(t, inputEdges) ==
    IF inputEdges = <<>> THEN [error |-> FALSE, waypoints |-> <<>>]
    ELSE The({The({
        IF ordered.error THEN ordered
        ELSE [error |-> FALSE,
              waypoints |-> Append(ordered.waypoints, ordered.waypoints[1])]
        : ordered \in {orderEdges(t, inputEdges, first, <<first>>)}})
        : first \in {getVertices(t, inputEdges[1])[1]}})

\* buildInitialLoop: the Dijkstra paths between consecutive waypoints;
\* error stands for 'No path from vertex'
RECURSIVE loopSegments(_, _, _, _)
loopSegments(t, waypoints, i, allEdges) ==
    IF i > Len(waypoints) - 1 THEN [error |-> FALSE, edges |-> allEdges]
    ELSE IF waypoints[i] = waypoints[i + 1]
    THEN loopSegments(t, waypoints, i + 1, allEdges)
    ELSE The({
        IF path = NoPath THEN [error |-> TRUE, edges |-> <<>>]
        ELSE loopSegments(t, waypoints, i + 1, allEdges \o path.edges)
        : path \in {computePath(t, waypoints[i], waypoints[i + 1])}})

\* GeodesicLoopNetwork.buildInitialLoop: the exception, or the loop
buildInitialLoop(t, waypoints) ==
    IF Len(waypoints) < 3
    THEN [error |-> "Need at least 3 waypoints to form a loop",
          loop |-> NoPath]
    ELSE The({
        IF segments.error
        THEN [error |-> "No path from vertex", loop |-> NoPath]
        ELSE IF Len(segments.edges) < 3
        THEN [error |-> "Loop must have at least 3 edges", loop |-> NoPath]
        ELSE IF GeodesicLoopError(t, segments.edges, waypoints[1]) # ""
        THEN [error |-> GeodesicLoopError(t, segments.edges, waypoints[1]),
              loop |-> NoPath]
        ELSE [error |-> "",
              loop |-> GeodesicLoop(t, segments.edges, waypoints[1])]
        : segments \in {loopSegments(t, waypoints, 1, <<>>)}})

\* GeodesicLoopNetwork.findFlexibleJoint: the scan of the loop vertices;
\* a vertex whose angle computation throws is passed over
RECURSIVE loopJointAmong(_, _, _, _)
loopJointAmong(t, sp, loop, vertices) ==
    IF vertices = <<>> THEN Null
    ELSE The({
        IF angle # Null /\ angle < PI THEN Head(vertices)
        ELSE loopJointAmong(t, sp, loop, Tail(vertices))
        : angle \in {loopAngleAtVertex(t, sp, loop, Head(vertices))}})

\* GeodesicLoopNetwork.findFlexibleJoint; error stands for the exception
\* of getVertices
findFlexibleJointLoop(t, sp, loop) ==
    The({
        IF vs.error THEN [error |-> TRUE, vertex |-> Null]
        ELSE [error |-> FALSE,
              vertex |-> loopJointAmong(t, sp, loop, vs.vertices)]
        : vs \in {loopVertices(t, loop)}})

\* GeodesicLoopNetwork.getOutgoingHalfedgeFromIncoming: the halfedge of the
\* edge that leaves v, found from the targets
getOutgoingHalfedgeFromIncoming(t, e, v) == getHalfedgeAtVertex(t, e, v)

\* GeodesicLoopNetwork.getOutgoingHalfedgeForOutgoing: the halfedge of the
\* edge that leaves v, found from the sources
getOutgoingHalfedgeForOutgoing(t, e, v) == getHalfedgePointingFrom(t, e, v)

\* GeodesicLoopNetwork.getWedgeEdges; error stands for the exception of
\* getAngle on a halfedge without a signpost
getWedgeEdgesLoop(t, sp, v, incomingEdge, outgoingEdge) ==
    The({The({
        IF inHe = Null \/ outHe = Null
        THEN [error |-> FALSE, edges |-> <<>>]
        ELSE IF sp.signposts[inHe] = Null \/ sp.signposts[outHe] = Null
        THEN [error |-> TRUE, edges |-> <<>>]
        ELSE The({
            IF all.error THEN [error |-> TRUE, edges |-> <<>>]
            ELSE IF \E i \in 1..Len(all.halfedges) :
                        sp.signposts[all.halfedges[i]] = Null
            THEN [error |-> TRUE, edges |-> <<>>]
            ELSE [error |-> FALSE,
                  edges |-> wedgeAmong(t, sp, all.halfedges,
                                       sp.signposts[inHe], sp.signposts[outHe],
                                       incomingEdge, outgoingEdge)]
            : all \in {getOutgoingHalfedgesSorted(t, sp, v)}})
        : outHe \in {getOutgoingHalfedgeForOutgoing(t, outgoingEdge, v)}})
        : inHe \in {getOutgoingHalfedgeFromIncoming(t, incomingEdge, v)}})

\* flipOutLoop: the loop over the wedge edges
RECURSIVE flipWedgeLoop(_, _, _, _, _, _, _)
flipWedgeLoop(t, sp, wedgeEdges, incomingEdge, outgoingEdge, flippedCount, attempts) ==
    IF wedgeEdges = <<>>
    THEN [triangulation |-> t, signpostData |-> sp,
          flippedCount |-> flippedCount, attempts |-> attempts]
    ELSE The({
        IF edge = incomingEdge \/ edge = outgoingEdge
        THEN flipWedgeLoop(t, sp, Tail(wedgeEdges), incomingEdge,
                           outgoingEdge, flippedCount, attempts)
        ELSE IF isBoundary(t, edge)
        THEN flipWedgeLoop(t, sp, Tail(wedgeEdges), incomingEdge,
                           outgoingEdge, flippedCount,
                           Append(attempts,
                                  Attempt(edge, FALSE, FALSE, t, sp, t, sp)))
        ELSE The({The({
                flipWedgeLoop(t2, sp2, Tail(wedgeEdges), incomingEdge,
                              outgoingEdge, flippedCount + 1,
                              Append(attempts,
                                     Attempt(edge, TRUE, t2 # t, t, sp, t2,
                                             sp2)))
                : sp2 \in {updateAfterFlip(t2, sp, edge)}})
                : t2 \in {flipEdge(t, edge)}})
        : edge \in {Head(wedgeEdges)}})

\* what flipOutLoop gives when it changes nothing: false or an exception
flipOutLoopNothing(t, sp, loop, error) ==
    [error |-> error, ret |-> FALSE, triangulation |-> t,
     signpostData |-> sp, loop |-> loop, attempts |-> <<>>]

\* GeodesicLoopNetwork.flipOutLoop
flipOutLoop(t, sp, loop, v) ==
    The({
        IF at.error THEN flipOutLoopNothing(t, sp, loop, TRUE)
        ELSE IF at.edges = <<>> THEN flipOutLoopNothing(t, sp, loop, FALSE)
        ELSE The({
            IF wedgeEdges.error THEN flipOutLoopNothing(t, sp, loop, TRUE)
            ELSE The({
                [error |-> FALSE,
                 ret |-> done.flippedCount > 0,
                 triangulation |-> done.triangulation,
                 signpostData |-> done.signpostData,
                 loop |-> updateLength(done.triangulation, loop),
                 attempts |-> done.attempts]
                : done \in {flipWedgeLoop(t, sp, wedgeEdges.edges,
                                          at.edges[1], at.edges[2], 0,
                                          <<>>)}})
            : wedgeEdges \in {getWedgeEdgesLoop(t, sp, v, at.edges[1],
                                                at.edges[2])}})
        : at \in {getEdgesAtVertex(t, loop, v)}})

\* what iterativeShortenLoop gives: the iteration count and the converged
\* flag it returns (or the exception), the state it leaves, and what it did
\* on the way: the vertices it passed to flipOutLoop, the flip attempts of
\* each of these calls, and the loop length it read at the start and after
\* every counted iteration
loopShortened(error, iterations, converged, t, sp, loop, trace) ==
    [error |-> error, iterations |-> iterations, converged |-> converged,
     triangulation |-> t, signpostData |-> sp, loop |-> loop,
     pivots |-> trace.pivots, attempts |-> trace.attempts,
     lengths |-> trace.lengths]

\* iterativeShortenLoop: the while loop
RECURSIVE shortenLoopSteps(_, _, _, _, _, _, _)
shortenLoopSteps(t, sp, loop, iteration, prevLength, maxIter, trace) ==
    IF ~(iteration < maxIter)
    THEN loopShortened(FALSE, iteration, FALSE, t, sp, loop, trace)
    ELSE The({
        IF flexibleJoint.error
        THEN loopShortened(TRUE, iteration, FALSE, t, sp, loop, trace)
        ELSE IF flexibleJoint.vertex = Null
        THEN loopShortened(FALSE, iteration, TRUE, t, sp, loop, trace)
        ELSE The({The({
            IF flipped.error
            THEN loopShortened(TRUE, iteration, FALSE, t, sp, loop, trace2)
            ELSE IF ~flipped.ret
            THEN loopShortened(FALSE, iteration, FALSE,
                               flipped.triangulation, flipped.signpostData,
                               flipped.loop, trace2)
            ELSE The({
                IF Abs(flipped.loop.cachedLength - prevLength)
                       < convergenceThreshold
                THEN loopShortened(FALSE, iteration + 1, TRUE,
                                   flipped.triangulation,
                                   flipped.signpostData, flipped.loop,
                                   trace3)
                ELSE shortenLoopSteps(flipped.triangulation,
                                      flipped.signpostData, flipped.loop,
                                      iteration + 1,
                                      flipped.loop.cachedLength, maxIter,
                                      trace3)
                : trace3 \in {[trace2 EXCEPT !.lengths =
                                 Append(@, flipped.loop.cachedLength)]}})
            : trace2 \in {[pivots |-> Append(trace.pivots,
                                             flexibleJoint.vertex),
                           attempts |-> Append(trace.attempts, flipped.attempts),
                           lengths |-> trace.lengths]}})
            : flipped \in {flipOutLoop(t, sp, loop, flexibleJoint.vertex)}})
        : flexibleJoint \in {findFlexibleJointLoop(t, sp, loop)}})

\* iterativeShortenLoop with a while loop that runs while
\* iteration <= maxIterations
iterativeShortenLoopOneMore(t, sp, loop, maxIter) ==
    shortenLoopSteps(t, sp, loop, 0, loop.cachedLength, maxIter + 1,
                     [pivots |-> <<>>, attempts |-> <<>>,
                      lengths |-> <<loop.cachedLength>>])

\* GeodesicLoopNetwork.iterativeShortenLoop
iterativeShortenLoop(t, sp, loop, maxIter) ==
    shortenLoopSteps(t, sp, loop, 0, loop.cachedLength, maxIter,
                     [pivots |-> <<>>, attempts |-> <<>>,
                      lengths |-> <<loop.cachedLength>>])

-----------------------------------------------------------------------------
(* EdgeOrderingOptimizer, with its default options *)

\* DEFAULT_OPTIONS.max2OptIterations
max2OptIterations == 100

\* a < b on distances, where Null stands for Infinity
lessThan(a, b) == a # Null /\ (b = Null \/ a < b)

\* a + b on distances, where Null stands for Infinity
plus(a, b) == IF a = Null \/ b = Null THEN Null ELSE a + b

\* optimizeOrder: inputEdges.map to candidates (edge, its two vertices)
toCandidates(t, inputEdges) ==
    [i \in DOMAIN inputEdges |->
        [edge |-> inputEdges[i], vertices |-> getVertices(t, inputEdges[i])]]

\* buildDistanceMatrix: the distances between all candidate vertices, by
\* one shortest-path tree per vertex, held as the set of its entries
buildDistanceMatrix(t, candidates) ==
    LET allVertices == {candidates[i].vertices[k] :
                            i \in DOMAIN candidates, k \in 1..2}
    IN UNION {The({ {[from |-> source, to |-> target,
                      distance |-> result.distances[target]] :
                         target \in allVertices} :
                    result \in {computeShortestPathTree(t, <<source>>)} }) :
              source \in allVertices}

\* getDistance: the entry of the matrix, Infinity without one
getDistance(matrix, from, to) ==
    IF \E m \in matrix : m.from = from /\ m.to = to
    THEN (CHOOSE m \in matrix : m.from = from /\ m.to = to).distance
    ELSE Null

\* wouldCauseCrossing: the vertex is already in the path
wouldCauseCrossing(currentPath, nextVertex) ==
    \E i \in DOMAIN currentPath : currentPath[i] = nextVertex

\* greedyOrdering: the two for loops over the unvisited candidates after the
\* first and their vertices, from target p on (targets 1, 2 belong to
\* candidate 2, targets 3, 4 to candidate 3, ...); the strictly nearest
\* vertex that is not yet in the ordering wins
RECURSIVE nearestTarget(_, _, _, _, _, _)
nearestTarget(candidates, matrix, skipCrossing, g, p, best) ==
    IF p > 2 * (Len(candidates) - 1) THEN best
    ELSE LET c == 2 + ((p - 1) \div 2)
             targetVertex == candidates[c].vertices[1 + ((p - 1) % 2)]
             dist == getDistance(matrix, g.currentVertex, targetVertex)
         IN IF c \in g.visited
            THEN nearestTarget(candidates, matrix, skipCrossing, g, p + 1, best)
            ELSE IF /\ lessThan(dist, best.distance)
                    /\ ~(skipCrossing /\ wouldCauseCrossing(g.ordering, targetVertex))
            THEN nearestTarget(candidates, matrix, skipCrossing, g, p + 1,
                               [distance |-> dist, candidate |-> c,
                                vertex |-> targetVertex])
            ELSE nearestTarget(candidates, matrix, skipCrossing, g, p + 1, best)

\* greedyOrdering: the unvisited candidates' edges, in input order
RECURSIVE unvisitedEdges(_, _, _)
unvisitedEdges(candidates, visited, c) ==
    IF c > Len(candidates) THEN <<>>
    ELSE (IF c \in visited THEN <<>> ELSE <<candidates[c].edge>>)
         \o unvisitedEdges(candidates, visited, c + 1)

\* greedyOrdering: the while loop over the remaining candidates
RECURSIVE greedyLoop(_, _, _, _)
greedyLoop(candidates, matrix, skipCrossing, g) ==
    IF \A c \in 2..Len(candidates) : c \in g.visited
    THEN [ordering |-> g.ordering, skippedEdges |-> g.skippedEdges]
    ELSE The({ IF best.candidate # Null
               THEN LET bestCandidate == candidates[best.candidate]
                        otherVertex ==
                            IF best.vertex = bestCandidate.vertices[1]
                            THEN bestCandidate.vertices[2]
                            ELSE bestCandidate.vertices[1]
                    IN greedyLoop(candidates, matrix, skipCrossing,
                          [ordering |-> g.ordering \o <<best.vertex, otherVertex>>,
                           skippedEdges |-> g.skippedEdges,
                           visited |-> g.visited \cup {best.candidate},
                           currentVertex |-> otherVertex])
               ELSE [ordering |-> g.ordering,
                     skippedEdges |-> g.skippedEdges
                         \o unvisitedEdges(candidates, g.visited, 2)] :
               best \in {nearestTarget(candidates, matrix, skipCrossing, g, 1,
                            [distance |-> Null, candidate |-> Null,
                             vertex |-> Null])} })

\* greedyOrdering: the first edge in its own direction, then the loop
greedyOrdering(candidates, matrix, skipCrossing) ==
    greedyLoop(candidates, matrix, skipCrossing,
        [ordering |-> <<candidates[1].vertices[1], candidates[1].vertices[2]>>,
         skippedEdges |-> <<>>,
         visited |-> {1},
         currentVertex |-> candidates[1].vertices[2]])

\* current.slice(0, i + 1), the reversed current.slice(i + 1, j + 1) and
\* current.slice(j + 1), with i and j counted from 0
reverseSegment(current, i, j) ==
    [k \in 1..Len(current) |->
        IF k >= i + 2 /\ k <= j + 1 THEN current[(i + 2) + (j + 1) - k]
        ELSE current[k]]

\* twoOptImprove: the two for loops, from (i, j) on, counted from 0
RECURSIVE twoOptPass(_, _, _, _, _)
twoOptPass(current, matrix, i, j, improved) ==
    IF i >= Len(current) - 2 THEN [current |-> current, improved |-> improved]
    ELSE IF j >= Len(current) - 1
    THEN twoOptPass(current, matrix, i + 1, i + 3, improved)
    ELSE LET d1 == getDistance(matrix, current[i + 1], current[i + 2])
             d2 == getDistance(matrix, current[j + 1], current[j + 2])
             d3 == getDistance(matrix, current[i + 1], current[j + 1])
             d4 == getDistance(matrix, current[i + 2], current[j + 2])
         IN IF lessThan(plus(d3, d4), plus(d1, d2))
            THEN twoOptPass(reverseSegment(current, i, j), matrix, i, j + 1, TRUE)
            ELSE twoOptPass(current, matrix, i, j + 1, improved)

\* twoOptImprove: the while loop
RECURSIVE twoOptWhile(_, _, _, _, _)
twoOptWhile(current, matrix, maxIterations, improved, iterations) ==
    IF improved /\ iterations < maxIterations
    THEN The({ twoOptWhile(pass.current, matrix, maxIterations, pass.improved,
                           iterations + 1) :
               pass \in {twoOptPass(current, matrix, 0, 2, FALSE)} })
    ELSE current

\* twoOptImprove
twoOptImprove(ordering, matrix, maxIterations) ==
    twoOptWhile(ordering, matrix, maxIterations, TRUE, 0)

\* calculatePathLength
RECURSIVE calculatePathLength(_, _)
calculatePathLength(ordering, matrix) ==
    IF Len(ordering) < 2 THEN 0
    ELSE plus(getDistance(matrix, ordering[1], ordering[2]),
              calculatePathLength(Tail(ordering), matrix))

\* optimizeOrder: close the loop
closeLoop(ordering) ==
    IF Len(ordering) > 0 /\ ordering[Len(ordering)] # ordering[1]
    THEN Append(ordering, ordering[1])
    ELSE ordering

\* optimizeOrder without options; with two or more edges, one of which has
\* no vertices (its halfedge has no twin), buildDistanceMatrix reads the id
\* of null and throws
optimizeOrder(t, inputEdges) ==
    IF Len(inputEdges) = 0
    THEN [orderedWaypoints |-> <<>>, skippedEdges |-> <<>>,
          estimatedLength |-> 0, error |-> ""]
    ELSE IF Len(inputEdges) = 1
    THEN IF getVertices(t, inputEdges[1])[1] = Null
         THEN [orderedWaypoints |-> <<>>, skippedEdges |-> inputEdges,
               estimatedLength |-> 0, error |-> ""]
         ELSE [orderedWaypoints |-> <<getVertices(t, inputEdges[1])[1],
                                      getVertices(t, inputEdges[1])[2],
                                      getVertices(t, inputEdges[1])[1]>>,
               skippedEdges |-> <<>>,
               estimatedLength |-> t.length[inputEdges[1]] * 2,
               error |-> ""]
    ELSE IF \E i \in DOMAIN inputEdges : getVertices(t, inputEdges[i])[1] = Null
    THEN [orderedWaypoints |-> <<>>, skippedEdges |-> <<>>,
          estimatedLength |-> 0, error |-> "TypeError"]
    ELSE
    The({ The({ The({ [orderedWaypoints |-> ordering,
                       skippedEdges |-> greedyResult.skippedEdges,
                       estimatedLength |-> calculatePathLength(ordering, matrix),
                       error |-> ""] :
                      ordering \in {closeLoop(
                          IF Len(greedyResult.ordering) > 3
                          THEN twoOptImprove(greedyResult.ordering, matrix,
                                             max2OptIterations)
                          ELSE greedyResult.ordering)} }) :
                greedyResult \in {greedyOrdering(toCandidates(t, inputEdges),
                                                 matrix, TRUE)} }) :
          matrix \in {buildDistanceMatrix(t, toCandidates(t, inputEdges))} })

-----------------------------------------------------------------------------
(* MeshSegmentation *)

\* Face.getHalfedges
getHalfedges(t, f) ==
    <<t.fHalfedge[f], t.next[t.fHalfedge[f]], t.next[t.next[t.fHalfedge[f]]]>>

\* triangulation.getFaces(): the faces in the order they were created
getFaces(t) == [i \in 1..Cardinality(Faces(t)) |-> i - 1]

\* the constructor's set of loop edge ids
loopEdgeIds(loop) == {loop.edges[i] : i \in 1..Len(loop.edges)}

\* initializeFaces
initializeFaces(t) == [f \in Faces(t) |-> "unknown"]

\* determineSeedFaces: the faces left and right of the first loop edge,
\* taken in the direction that leaves the base vertex
determineSeedFaces(t, loop) ==
    IF loop.edges = <<>> THEN [insideSeed |-> Null, outsideSeed |-> Null]
    ELSE The({The({
            [insideSeed |-> t.face[loopHe],
             outsideSeed |-> IF t.twin[loopHe] = Null THEN Null
                             ELSE t.face[t.twin[loopHe]]]
            : loopHe \in {IF getSourceVertex(t, he) # Null
                               /\ getSourceVertex(t, he) = loop.startVertex
                          THEN he
                          ELSE IF t.twin[he] # Null THEN t.twin[he]
                          ELSE he}})
            : he \in {t.eHalfedge[loop.edges[1]]}})

\* a face none of whose neighbours is pushed
floodNeighborsNone(t, loopEdges, hs, visited, queue) == queue

\* floodFill: the neighbours pushed for the halfedges hs of a face
RECURSIVE floodNeighbors(_, _, _, _, _)
floodNeighbors(t, loopEdges, hs, visited, queue) ==
    IF hs = <<>> THEN queue
    ELSE The({The({
            floodNeighbors(t, loopEdges, Tail(hs), visited, pushed)
            : pushed \in {IF t.edge[Head(hs)] \in loopEdges THEN queue
                          ELSE IF twin = Null THEN queue
                          ELSE IF t.face[twin] = Null THEN queue
                          ELSE IF t.face[twin] \notin visited
                          THEN Append(queue, t.face[twin])
                          ELSE queue}})
            : twin \in {t.twin[Head(hs)]}})

\* floodFill: the loop over the queue
RECURSIVE floodQueue(_, _, _, _, _, _)
floodQueue(t, loopEdges, queue, visited, faceRegions, region) ==
    IF queue = <<>> THEN faceRegions
    ELSE The({
            IF face \in visited
            THEN floodQueue(t, loopEdges, Tail(queue), visited, faceRegions,
                            region)
            ELSE IF faceRegions[face] # "unknown"
                    /\ faceRegions[face] # region
            THEN floodQueue(t, loopEdges, Tail(queue), visited, faceRegions,
                            region)
            ELSE The({The({
                    floodQueue(t, loopEdges, pushed, visited \cup {face},
                               assigned, region)
                    : pushed \in {floodNeighbors(t, loopEdges,
                                                 getHalfedges(t, face),
                                                 visited \cup {face},
                                                 Tail(queue))}})
                    : assigned \in {[faceRegions EXCEPT ![face] = region]}})
            : face \in {Head(queue)}})

\* a flood fill that colours its seed face and goes no further
floodFillSeedOnly(t, loopEdges, seedFace, faceRegions, region) ==
    IF faceRegions[seedFace] # "unknown" /\ faceRegions[seedFace] # region
    THEN faceRegions
    ELSE [faceRegions EXCEPT ![seedFace] = region]

\* MeshSegmentation.floodFill
floodFill(t, loopEdges, seedFace, faceRegions, region) ==
    floodQueue(t, loopEdges, <<seedFace>>, {}, faceRegions, region)

\* markRemainingFaces, first loop: unknown faces with a loop edge become
\* boundary faces
markBoundaryFaces(t, loopEdges, faceRegions) ==
    [f \in Faces(t) |->
        IF faceRegions[f] = "unknown"
           /\ \E i \in 1..3 : t.edge[getHalfedges(t, f)[i]] \in loopEdges
        THEN "boundary"
        ELSE faceRegions[f]]

\* how many neighbours of face f across its three halfedges have the region
neighborCount(t, faceRegions, f, region) ==
    Cardinality({i \in 1..3 :
        LET twin == t.twin[getHalfedges(t, f)[i]]
        IN /\ twin # Null
           /\ t.face[twin] # Null
           /\ faceRegions[t.face[twin]] = region})

\* markRemainingFaces, one pass of the while loop over the faces, each face
\* seeing the regions the faces before it were just given
RECURSIVE markByNeighbors(_, _, _, _)
markByNeighbors(t, faces, faceRegions, changed) ==
    IF faces = <<>> THEN [faceRegions |-> faceRegions, changed |-> changed]
    ELSE The({The({The({
            IF faceRegions[face] # "unknown"
            THEN markByNeighbors(t, Tail(faces), faceRegions, changed)
            ELSE IF insideCount > 0 \/ outsideCount > 0
            THEN The({
                    markByNeighbors(t, Tail(faces), assigned, TRUE)
                    : assigned \in {[faceRegions EXCEPT ![face] =
                                        IF insideCount > outsideCount
                                        THEN "inside" ELSE "outside"]}})
            ELSE markByNeighbors(t, Tail(faces), faceRegions, changed)
            : outsideCount \in {neighborCount(t, faceRegions, face,
                                              "outside")}})
            : insideCount \in {neighborCount(t, faceRegions, face,
                                             "inside")}})
            : face \in {Head(faces)}})

\* markRemainingFaces, the while loop: passes until nothing changes (a pass
\* that changes something takes a face out of the unknown ones, so the
\* limit of 1000 passes is never reached on these meshes)
RECURSIVE markUntilUnchanged(_, _)
markUntilUnchanged(t, faceRegions) ==
    The({
        IF pass.changed THEN markUntilUnchanged(t, pass.faceRegions)
        ELSE pass.faceRegions
        : pass \in {markByNeighbors(t, getFaces(t), faceRegions, FALSE)}})

\* markRemainingFaces without a single change
markNothing(t, loopEdges, faceRegions) == faceRegions

\* MeshSegmentation.markRemainingFaces: boundary faces, neighbour majority,
\* and outside for what is still unknown
markRemainingFaces(t, loopEdges, faceRegions) ==
    The({The({
        [f \in Faces(t) |->
            IF marked[f] = "unknown" THEN "outside" ELSE marked[f]]
        : marked \in {markUntilUnchanged(t, boundary)}})
        : boundary \in {markBoundaryFaces(t, loopEdges, faceRegions)}})

\* the faces of one region, in face order
RECURSIVE facesOfRegion(_, _, _)
facesOfRegion(faces, faceRegions, region) ==
    IF faces = <<>> THEN <<>>
    ELSE IF faceRegions[Head(faces)] = region
    THEN <<Head(faces)>> \o facesOfRegion(Tail(faces), faceRegions, region)
    ELSE facesOfRegion(Tail(faces), faceRegions, region)

\* MeshSegmentation.collectResults, without the areas
collectResults(t, faceRegions) ==
    [insideFaces |-> facesOfRegion(getFaces(t), faceRegions, "inside"),
     outsideFaces |-> facesOfRegion(getFaces(t), faceRegions, "outside"),
     boundaryFaces |-> facesOfRegion(getFaces(t), faceRegions, "boundary"),
     faceRegions |-> faceRegions]

\* no segmentation was computed
NoSegmentation ==
    [insideFaces |-> <<>>, outsideFaces |-> <<>>, boundaryFaces |-> <<>>,
     faceRegions |-> <<>>]

\* new MeshSegmentation(triangulation, loop).compute()
segment(t, loop) ==
    The({The({The({The({
        collectResults(t, faceRegions)
        : faceRegions \in {markRemainingFaces(t, loopEdgeIds(loop),
                                              afterOutside)}})
        : afterOutside \in {IF seeds.outsideSeed = Null THEN afterInside
                            ELSE floodFill(t, loopEdgeIds(loop),
                                           seeds.outsideSeed, afterInside,
                                           "outside")}})
        : afterInside \in {IF seeds.insideSeed = Null
                           THEN initializeFaces(t)
                           ELSE floodFill(t, loopEdgeIds(loop),
                                          seeds.insideSeed,
                                          initializeFaces(t), "inside")}})
        : seeds \in {determineSeedFaces(t, loop)}})

-----------------------------------------------------------------------------
(* The program: a triangulation built from a geometry, its signpost index, *)
(* and calls of the public operations.                                     *)

\* no FlipEdgeNetwork or GeodesicLoopNetwork has been constructed
NoNetwork ==
    [kind |-> "none", paths |-> <<>>, markedVertices |-> {}, loop |-> NoPath,
     calls |-> 0]

\* a triangulation of one of the geometries gs and its signpost index
InitOf(gs) ==
    \E g \in gs :
        /\ Accepted(g)
        /\ triangulation = fromBufferGeometry(g)
        /\ signpostData = initialize(fromBufferGeometry(g))
        /\ call = [op |-> "new", a |-> Null, b |-> Null, ret |-> Null,
                   error |-> ""]
        /\ flips = 0
        /\ network = NoNetwork

Init == InitOf(Geometries)

\* a query changes nothing, so the calls that follow it are explored from
\* the state it was asked in: the state holding its answer has no successor
\* (a constructor that threw is such an answer)
Answered ==
    \/ call.op \in {"getAngleBetween", "computePath", "findFlexibleJoint",
                   "compute", "flipEdgeTwice", "isBoundary",
                   "getNeighbors", "segment", "optimizeOrder"}
    \/ call.op = "newFlipEdgeNetwork" /\ call.error # ""

\* triangulation.flipEdge(e)
FlipEdge(e) ==
    /\ ~Answered
    /\ flipEdgeReturns(triangulation, e) => flips < MaxFlips
    /\ triangulation' = flipEdge(triangulation, e)
    /\ flips' = IF flipEdgeReturns(triangulation, e) THEN flips + 1 ELSE flips
    /\ call' = [op |-> "flipEdge", a |-> e, b |-> Null,
                ret |-> IF flipEdgeReturns(triangulation, e) THEN 1 ELSE 0,
                error |-> ""]
    /\ UNCHANGED <<signpostData, network>>

\* signpostData.updateAfterFlip(e)
UpdateAfterFlip(e) ==
    /\ ~Answered
    /\ signpostData' = updateAfterFlip(triangulation, signpostData, e)
    /\ call' = [op |-> "updateAfterFlip", a |-> e, b |-> Null, ret |-> Null,
                error |-> ""]
    /\ UNCHANGED <<triangulation, flips, network>>

\* signpostData.getAngleBetween(from, to)
GetAngleBetween(from, to) ==
    /\ ~Answered
    /\ call' = [op |-> "getAngleBetween", a |-> from, b |-> to,
                ret |-> getAngleBetween(triangulation, signpostData, from, to),
                error |-> getAngleBetweenError(triangulation, signpostData,
                                               from, to)]
    /\ UNCHANGED <<triangulation, signpostData, flips, network>>

\* new DijkstraShortestPath(triangulation).computePath(sourceId, targetId)
ComputePath(sourceId, targetId) ==
    /\ ~Answered
    /\ call' = [op |-> "computePath", a |-> sourceId, b |-> targetId,
                ret |-> computePath(triangulation, sourceId, targetId),
                error |-> ""]
    /\ UNCHANGED <<triangulation, signpostData, flips, network>>

\* triangulation.flipEdge(e) called twice in a row
FlipEdgeTwice(e) ==
    /\ ~Answered
    /\ \E once \in {flipEdge(triangulation, e)} :
          /\ triangulation' = flipEdge(once, e)
          /\ call' = [op |-> "flipEdgeTwice", a |-> e, b |-> Null,
                      ret |-> Null, error |-> "",
                      first |-> flipEdgeReturns(triangulation, e),
                      second |-> flipEdgeReturns(once, e),
                      before |-> triangulation]
    /\ UNCHANGED <<signpostData, flips, network>>

\* edge.isBoundary()
IsBoundary(e) ==
    /\ ~Answered
    /\ call' = [op |-> "isBoundary", a |-> e, b |-> Null,
                ret |-> IF isBoundary(triangulation, e) THEN 1 ELSE 0,
                error |-> ""]
    /\ UNCHANGED <<triangulation, signpostData, flips, network>>

\* the neighbours Dijkstra is offered when it expands vertex v
GetNeighbors(v) ==
    /\ ~Answered
    /\ call' = [op |-> "getNeighbors", a |-> v, b |-> Null,
                ret |-> getNeighbors(triangulation, v), error |-> ""]
    /\ UNCHANGED <<triangulation, signpostData, flips, network>>

\* new EdgeOrderingOptimizer(triangulation).optimizeOrder(inputEdges)
OptimizeOrder(inputEdges) ==
    /\ ~Answered
    /\ \E result \in {optimizeOrder(triangulation, inputEdges)} :
          call' = [op |-> "optimizeOrder", a |-> inputEdges, b |-> Null,
                   ret |-> result, error |-> result.error]
    /\ UNCHANGED <<triangulation, signpostData, flips, network>>

\* the mutating calls
Next ==
    \/ \E e \in Edges(triangulation) : FlipEdge(e)
    \/ \E e \in Edges(triangulation) : UpdateAfterFlip(e)

Spec == Init /\ [][Next]_vars

\* the mutating calls and the angle query
NextQuery ==
    \/ \E e \in Edges(triangulation) : FlipEdge(e)
    \/ \E e \in Edges(triangulation) : UpdateAfterFlip(e)
    \/ \E from, to \in Halfedges(triangulation) : GetAngleBetween(from, to)

SpecQuery == Init /\ [][NextQuery]_vars

\* flips, and the same edge flipped twice in a row
NextFlipTwice ==
    \/ \E e \in Edges(triangulation) : FlipEdge(e)
    \/ \E e \in Edges(triangulation) : FlipEdgeTwice(e)

SpecFlipTwice == Init /\ [][NextFlipTwice]_vars

\* flips and the queries on edges and vertices
NextMeshQuery ==
    \/ \E e \in Edges(triangulation) : FlipEdge(e)
    \/ \E e \in Edges(triangulation) : IsBoundary(e)
    \/ \E v \in Vertices(triangulation) : GetNeighbors(v)

SpecMeshQuery == Init /\ [][NextMeshQuery]_vars

\* the geometries networks are built on
NetworkGeometries == {Quad, Fan, Wheel}

\* the geometries that are flipped before a network is built on them
PreparedGeometries == {Fan, Pillow, Tetrahedron}

\* the waypoint lists of two to MaxWaypoints vertices
Waypoints(t) ==
    UNION {[1..n -> Vertices(t)] : n \in 2..MaxWaypoints}

\* an edge flip on a triangulation no network has been built on yet
PrepFlip(e) ==
    /\ network.kind = "none"
    /\ flips < MaxPrepFlips
    /\ FlipEdge(e)

\* new FlipEdgeNetwork(triangulation, computePiecewisePath(waypoints),
\* marked): what fromPiecewiseDijkstraPath does after it has built the
\* triangulation; it throws when a segment has no path
NewFlipEdgeNetwork(waypoints, markInterior) ==
    /\ ~Answered
    /\ network.kind = "none"
    /\ \E paths \in {computePiecewisePath(triangulation, waypoints)} :
       /\ call' = [op |-> "newFlipEdgeNetwork", a |-> waypoints,
                   b |-> markInterior, ret |-> Null,
                   error |-> IF paths = <<>>
                             THEN "Could not compute piecewise path"
                             ELSE ""]
       /\ network' = IF paths = <<>> THEN network
                     ELSE FlipEdgeNetwork(paths,
                              markedWaypoints(waypoints, markInterior))
       /\ signpostData' = IF paths = <<>> THEN signpostData
                          ELSE initialize(triangulation)
       /\ UNCHANGED <<triangulation, flips>>

\* network.findFlexibleJoint()
FindFlexibleJoint ==
    /\ ~Answered
    /\ network.kind = "paths"
    /\ \E joint \in {findFlexibleJoint(triangulation, network)} :
       /\ call' = [op |-> "findFlexibleJoint", a |-> Null, b |-> Null,
                   ret |-> joint.vertex,
                   error |-> IF joint.error THEN "Edge has invalid vertices"
                             ELSE ""]
       /\ UNCHANGED <<triangulation, signpostData, flips, network>>

\* network.flipOut(vertex)
FlipOut(v) ==
    /\ ~Answered
    /\ network.kind = "paths"
    /\ network.calls < MaxCalls
    /\ \E done \in {flipOut(triangulation, signpostData, network, v)} :
       /\ call' = [op |-> "flipOut", a |-> v, b |-> Null, ret |-> done.ret,
                   error |-> IF done.error THEN "throws" ELSE "",
                   attempts |-> done.attempts]
       /\ triangulation' = done.triangulation
       /\ signpostData' = done.signpostData
       /\ network' = [done.network EXCEPT !.calls = @ + 1]
       /\ UNCHANGED flips

\* network.iterativeShorten(maxIterations)
IterativeShorten(maxIterations) ==
    /\ ~Answered
    /\ network.kind = "paths"
    /\ network.calls < MaxCalls
    /\ \E done \in {iterativeShorten(triangulation, signpostData, network,
                                      maxIterations)} :
       /\ call' = [op |-> "iterativeShorten", a |-> maxIterations,
                   b |-> Null, ret |-> done.iterations,
                   error |-> IF done.error THEN "throws" ELSE ""]
       /\ triangulation' = done.triangulation
       /\ signpostData' = done.signpostData
       /\ network' = [done.network EXCEPT !.calls = @ + 1]
       /\ UNCHANGED flips

\* the sets of vertices a caller has flagged with isMarked before a loop
\* is computed through inputEdges: none, or one end of the first input edge
Marks(t, inputEdges) ==
    {{}} \cup {{v} : v \in {getVertices(t, inputEdges[1])[i] : i \in 1..2}
                           \ {Null}}

\* new GeodesicLoopNetwork(triangulation, inputEdges, {optimizeOrder: false,
\* maxIterations}).compute(), on a triangulation whose vertices in marked
\* carry the isMarked flag; the constructor builds a fresh signpost index
Compute(inputEdges) ==
    /\ ~Answered
    /\ network.kind = "none"
    /\ \E sp \in {initialize(triangulation)} :
       \E ordering \in {sequentialOrdering(triangulation, inputEdges)} :
       \E built \in {IF ordering.error
                     THEN [error |-> "throws", loop |-> NoPath]
                     ELSE buildInitialLoop(triangulation,
                                           ordering.waypoints)} :
       \E maxIterations \in 0..MaxIter :
       \E done \in {IF built.error # "" THEN built
                    ELSE iterativeShortenLoop(triangulation, sp, built.loop,
                                              maxIterations)} :
       \E marked \in Marks(triangulation, inputEdges) :
          IF built.error # ""
          THEN /\ call' = [op |-> "compute", a |-> inputEdges,
                           b |-> maxIterations, ret |-> Null,
                           error |-> built.error]
               /\ signpostData' = sp
               /\ network' = [kind |-> "loop", paths |-> <<>>,
                              markedVertices |-> marked, loop |-> NoPath,
                              calls |-> 1]
               /\ UNCHANGED <<triangulation, flips>>
          ELSE /\ call' = [op |-> "compute", a |-> inputEdges,
                           b |-> maxIterations,
                           ret |-> [iterations |-> done.iterations,
                                    converged |-> done.converged],
                           error |-> IF done.error THEN "throws" ELSE "",
                           pivots |-> done.pivots,
                           attempts |-> done.attempts,
                           lengths |-> done.lengths,
                           segmentation |->
                              IF done.error THEN NoSegmentation
                              ELSE segment(done.triangulation, done.loop)]
               /\ triangulation' = done.triangulation
               /\ signpostData' = done.signpostData
               /\ network' = [kind |-> "loop", paths |-> <<>>,
                              markedVertices |-> marked,
                              loop |-> done.loop, calls |-> 1]
               /\ UNCHANGED flips

\* new GeodesicLoop(edges, baseVertex)
NewGeodesicLoop(edges, baseVertex) ==
    /\ ~Answered
    /\ network.kind = "none"
    /\ \E error \in {GeodesicLoopError(triangulation, edges, baseVertex)} :
          /\ call' = [op |-> "newGeodesicLoop", a |-> edges,
                      b |-> baseVertex, ret |-> Null, error |-> error]
          /\ network' = [kind |-> "geodesicLoop", paths |-> <<>>,
                         markedVertices |-> {},
                         loop |-> IF error # "" THEN NoPath
                                  ELSE GeodesicLoop(triangulation, edges,
                                                    baseVertex),
                         calls |-> 0]
    /\ UNCHANGED <<triangulation, signpostData, flips>>

\* new MeshSegmentation(triangulation, loop).compute()
Segment ==
    /\ ~Answered
    /\ network.kind = "geodesicLoop"
    /\ network.loop # NoPath
    /\ \E result \in {segment(triangulation, network.loop)} :
          call' = [op |-> "segment", a |-> Null, b |-> Null,
                   ret |-> result, error |-> ""]
    /\ UNCHANGED <<triangulation, signpostData, flips, network>>

\* a path network built on a triangulation, queried and shortened
NextNetwork ==
    \/ \E waypoints \in Waypoints(triangulation) :
          \E markInterior \in IF Len(waypoints) > 2 THEN BOOLEAN ELSE {FALSE} :
             NewFlipEdgeNetwork(waypoints, markInterior)
    \/ FindFlexibleJoint
    \/ \E v \in Vertices(triangulation) : FlipOut(v)
    \/ \E maxIterations \in 0..MaxIter : IterativeShorten(maxIterations)

SpecNetwork == InitOf(NetworkGeometries) /\ [][NextNetwork]_vars

\* the geometries with a boundary vertex of three faces
BoundaryGeometries == {HalfDisc}

\* a path network on a mesh with boundary
SpecBoundary == InitOf(BoundaryGeometries) /\ [][NextNetwork]_vars

\* the edge sequences a loop is asked through
InputEdges(t) == UNION {[1..n -> Edges(t)] : n \in 1..MaxInputEdges}

\* paths and loops on a triangulation that was flipped before
NextPrepared ==
    \/ \E e \in Edges(triangulation) : PrepFlip(e)
    \/ NextNetwork
    \/ \E inputEdges \in InputEdges(triangulation) : Compute(inputEdges)

SpecPrepared == InitOf(PreparedGeometries) /\ [][NextPrepared]_vars

\* the geometries closed loops and path networks are shortened on
LoopGeometries == {Tetrahedron, Pillow, Fan}

\* a closed loop computed, or a path network built, queried and shortened,
\* on a triangulation that was flipped before or not
NextLoop ==
    \/ \E e \in Edges(triangulation) : flips < MaxLoopFlips /\ PrepFlip(e)
    \/ \E inputEdges \in InputEdges(triangulation) : Compute(inputEdges)
    \/ NextNetwork

SpecLoop == InitOf(LoopGeometries) /\ [][NextLoop]_vars

\* the geometries loops are constructed and segmented on
SegmentGeometries == {Tetrahedron, Fan, Islands}

\* the edge sequences a GeodesicLoop is constructed from
LoopEdges(t) == UNION {[1..n -> Edges(t)] : n \in 2..MaxLoopEdges}

\* a loop constructed from edges and the mesh segmented by it
NextSegment ==
    \/ /\ network.kind = "none"
       /\ \E edges \in LoopEdges(triangulation) :
             \E baseVertex \in Vertices(triangulation) :
                NewGeodesicLoop(edges, baseVertex)
    \/ Segment

SpecSegment == InitOf(SegmentGeometries) /\ [][NextSegment]_vars

\* the geometries waypoint edges are ordered on
OrderGeometries == {Tetrahedron, Pillow, Fan, Islands}

\* the waypoint edge lists handed to optimizeOrder
WaypointEdges(t) == UNION {[1..n -> Edges(t)] : n \in 0..MaxOrderEdges}

\* edge flips and the ordering of waypoint edges
NextOrder ==
    \/ \E e \in Edges(triangulation) : FlipEdge(e)
    \/ /\ ~Answered
       /\ \E inputEdges \in WaypointEdges(triangulation) :
             OptimizeOrder(inputEdges)

SpecOrder == InitOf(OrderGeometries) /\ [][NextOrder]_vars

\* the geometries shortest paths are asked on
DijkstraGeometries == {Quad, OpenMesh, Fan, Tetrahedron, Pillow, Islands, Wheel}

\* edge flips and the shortest-path query
NextDijkstra ==
    \/ \E e \in Edges(triangulation) : FlipEdge(e)
    \/ \E sourceId, targetId \in Vertices(triangulation) :
          ComputePath(sourceId, targetId)

SpecDijkstra == InitOf(DijkstraGeometries) /\ [][NextDijkstra]_vars

-----------------------------------------------------------------------------
(* Vocabulary of the properties *)

\* the vertex a halfedge starts at: the target of the halfedge before it in
\* its face cycle
Source(t, h) == t.vertex[t.prev[h]]

\* the number of edge ends at a vertex: the halfedges leaving it, and the
\* twinless halfedges arriving at it
EdgeEnds(t, v) ==
    Cardinality({h \in Halfedges(t) : Source(t, h) = v})
    + Cardinality({h \in Halfedges(t) : t.twin[h] = Null /\ t.vertex[h] = v})

\* an edge with only one incident face
OneFace(t, e) ==
    \/ t.twin[t.eHalfedge[e]] = Null
    \/ t.face[t.eHalfedge[e]] = Null
    \/ t.face[t.twin[t.eHalfedge[e]]] = Null

\* the targets of the face cycle that starts at halfedge h
CycleTargets(t, h) ==
    <<t.vertex[h], t.vertex[t.next[h]], t.vertex[t.next[t.next[h]]]>>

\* h, h.next, h.next.next form a closed cycle inside one face
ClosedTriangle(t, h) ==
    /\ t.next[t.next[t.next[h]]] = h
    /\ t.face[t.next[h]] = t.face[h]
    /\ t.face[t.next[t.next[h]]] = t.face[h]

\* the last call was flipEdge and it returned true
Flipped == call.op = "flipEdge" /\ call.ret = 1

\* compute() has built its loop and has run the shortener on it
LoopBuilt == call.op = "compute" /\ network.loop # NoPath

\* compute() has built its loop, has shortened it and has not thrown
Computed == LoopBuilt /\ call.error = ""

-----------------------------------------------------------------------------
(* Properties *)

\* C1: after the build and after any sequence of flipEdge calls, every
\* halfedge h of a face satisfies h.next.next.next = h, and h, h.next and
\* h.next.next are assigned to the same face.
TrianglesOnly ==
    \A h \in Halfedges(triangulation) :
        triangulation.face[h] # Null => ClosedTriangle(triangulation, h)

\* C1 witness: two flips have succeeded
TwoFlipsDone == Flipped /\ flips = 2

\* C2: after the build and after any sequence of flipEdge calls, every
\* halfedge h with a twin satisfies h.twin.twin = h, h.twin.edge = h.edge,
\* and the target of h.twin is the source of h.
TwinsOpposite ==
    \A h \in Halfedges(triangulation) :
        LET tw == triangulation.twin[h]
        IN tw # Null =>
            /\ triangulation.twin[tw] = h
            /\ triangulation.edge[tw] = triangulation.edge[h]
            /\ triangulation.vertex[tw] = Source(triangulation, h)

\* C2 witness: a flip has succeeded and the flipped edge has its two twins
FlippedEdgeHasTwins ==
    /\ Flipped
    /\ triangulation.twin[triangulation.eHalfedge[call.a]] # Null

\* C3: a successful flipEdge(E) of E = (A,B) with faces (A,B,C), (B,A,D)
\* leaves E connecting C and D, and the two faces of E are the closed
\* 3-cycles C -> D -> B -> C and D -> C -> A -> D.
FlipConnectsFarVertices ==
    [][(call'.op = "flipEdge" /\ call'.ret = 1) =>
        LET h == triangulation.eHalfedge[call'.a]
            tw == triangulation.twin[h]
            A == Source(triangulation, h)
            B == triangulation.vertex[h]
            C == triangulation.vertex[triangulation.next[h]]
            D == triangulation.vertex[triangulation.next[tw]]
            h2 == triangulation'.eHalfedge[call'.a]
            tw2 == triangulation'.twin[h2]
        IN /\ Source(triangulation', h2) = C
           /\ triangulation'.vertex[h2] = D
           /\ Source(triangulation', tw2) = D
           /\ triangulation'.vertex[tw2] = C
           /\ ClosedTriangle(triangulation', h2)
           /\ ClosedTriangle(triangulation', tw2)
           /\ triangulation'.face[h2] # triangulation'.face[tw2]
           /\ CycleTargets(triangulation', h2) = <<D, B, C>>
           /\ CycleTargets(triangulation', tw2) = <<C, A, D>>]_vars

\* C3 witness: a flip has succeeded and the edge now joins two different
\* vertices
FlippedToDiagonal ==
    /\ Flipped
    /\ triangulation.vertex[triangulation.eHalfedge[call.a]]
         # triangulation.vertex[triangulation.twin[triangulation.eHalfedge[call.a]]]

\* C4: a successful flipEdge(E) changes only the length of E, the next, prev,
\* face and target of the six halfedges of E's two faces, the representative
\* halfedges of those two faces and of the four vertices of the
\* quadrilateral; everything else of the mesh stays as it was.
FlipFrame ==
    [][(call'.op = "flipEdge" /\ call'.ret = 1) =>
        LET t == triangulation
            u == triangulation'
            h == t.eHalfedge[call'.a]
            tw == t.twin[h]
            six == {h, t.next[h], t.prev[h], tw, t.next[tw], t.prev[tw]}
            two == {t.face[h], t.face[tw]}
            four == {t.vertex[k] : k \in six}
        IN /\ u.position = t.position
           /\ u.twin = t.twin
           /\ u.edge = t.edge
           /\ u.eHalfedge = t.eHalfedge
           /\ \A e \in Edges(t) \ {call'.a} : u.length[e] = t.length[e]
           /\ \A k \in Halfedges(t) \ six :
                 /\ u.next[k] = t.next[k]
                 /\ u.prev[k] = t.prev[k]
                 /\ u.face[k] = t.face[k]
                 /\ u.vertex[k] = t.vertex[k]
           /\ \A f \in Faces(t) \ two : u.fHalfedge[f] = t.fHalfedge[f]
           /\ \A v \in Vertices(t) \ four : u.vHalfedge[v] = t.vHalfedge[v]
           /\ Halfedges(u) = Halfedges(t)
           /\ Edges(u) = Edges(t)
           /\ Faces(u) = Faces(t)
           /\ Vertices(u) = Vertices(t)]_vars

\* C4 witness: a flip has succeeded on a mesh that has a vertex outside the
\* flipped quadrilateral
FlippedWithBystander ==
    /\ Flipped
    /\ LET h == triangulation.eHalfedge[call.a]
           tw == triangulation.twin[h]
       IN \E v \in Vertices(triangulation) :
             v \notin {triangulation.vertex[k] :
                         k \in {h, triangulation.next[h], triangulation.prev[h],
                                tw, triangulation.next[tw],
                                triangulation.prev[tw]}}

\* C5: flipEdge(E) returns false and leaves the whole mesh unchanged whenever
\* E has only one incident face or one of its endpoints has degree 1 or less.
RefusedFlipChangesNothing ==
    [][(/\ call'.op = "flipEdge"
        /\ LET h == triangulation.eHalfedge[call'.a]
           IN \/ OneFace(triangulation, call'.a)
              \/ EdgeEnds(triangulation, Source(triangulation, h)) <= 1
              \/ EdgeEnds(triangulation, triangulation.vertex[h]) <= 1)
       => (call'.ret = 0 /\ triangulation' = triangulation)]_vars

\* C5 witness: flipEdge has refused an edge that has two faces, because an
\* endpoint has degree 1
RefusedForDegree ==
    /\ call.op = "flipEdge"
    /\ call.ret = 0
    /\ ~OneFace(triangulation, call.a)
    /\ \/ EdgeEnds(triangulation,
                   Source(triangulation, triangulation.eHalfedge[call.a])) <= 1
       \/ EdgeEnds(triangulation,
                   triangulation.vertex[triangulation.eHalfedge[call.a]]) <= 1

\* C6: after any sequence of flipEdge calls every vertex's representative
\* halfedge starts at that vertex and every face's representative halfedge
\* is one of the halfedges of that face.
RepresentativesIncident ==
    /\ \A v \in Vertices(triangulation) :
          triangulation.vHalfedge[v] # Null =>
              Source(triangulation, triangulation.vHalfedge[v]) = v
    /\ \A f \in Faces(triangulation) :
          triangulation.face[triangulation.fHalfedge[f]] = f

\* C6 witness: after a successful flip, an old endpoint of the flipped edge
\* is represented by the halfedge flipEdge hands it (hTwinNext for vA)
RepresentativeHandedOver ==
    /\ Flipped
    /\ LET tw == triangulation.twin[triangulation.eHalfedge[call.a]]
           hTwinNext == triangulation.prev[tw]
       IN triangulation.vHalfedge[Source(triangulation, hTwinNext)] = hTwinNext

\* the vertices of the mesh have pairwise distinct positions
DistinctPositions(t) ==
    \A v, w \in Vertices(t) : v # w => t.position[v] # t.position[w]

\* C7: on a mesh with pairwise distinct vertex positions, after any sequence
\* of successful flips every edge has length > 0 and no edge joins a vertex
\* to itself.
EdgesStayProper ==
    DistinctPositions(triangulation) =>
        \A e \in Edges(triangulation) :
            /\ triangulation.length[e] > 0
            /\ Source(triangulation, triangulation.eHalfedge[e])
                 # triangulation.vertex[triangulation.eHalfedge[e]]

\* C8: after the signpost index is constructed and after every
\* updateAfterFlip, the stored angle of each vertex's reference halfedge is
\* exactly 0.
ReferenceAngleIsZero ==
    call.op \in {"new", "updateAfterFlip"} =>
        \A v \in Vertices(triangulation) :
            signpostData.referenceHalfedges[v] # Null =>
                signpostData.signposts[signpostData.referenceHalfedges[v]] = 0

\* C9: for two recorded halfedges that leave the same vertex the
\* angle-between query returns a value in [0, 2 PI) and does not raise; it
\* raises the shared-vertex error only when the sources differ.
AngleBetweenOfSameSource ==
    call.op = "getAngleBetween" =>
        LET same == Source(triangulation, call.a) = Source(triangulation, call.b)
            recorded == /\ signpostData.signposts[call.a] # Null
                        /\ signpostData.signposts[call.b] # Null
        IN /\ (same /\ recorded) =>
                 (call.error = "" /\ call.ret \in 0..(2 * PI - 1))
           /\ call.error = "Halfedges must share a vertex" => ~same

\* the vertices of the faces on the two sides of edge e
VerticesAround(t, e) ==
    LET h == t.eHalfedge[e]
        tw == t.twin[h]
        side(k) == {t.vertex[k], t.vertex[t.next[k]], t.vertex[t.prev[k]]}
    IN IF tw = Null THEN side(h) ELSE side(h) \cup side(tw)

\* C10: updateAfterFlip(E) changes signpost entries only of halfedges that
\* leave one of the four vertices of the two faces of E (and the reference
\* only of those vertices).
UpdateAfterFlipFrame ==
    [][call'.op = "updateAfterFlip" =>
        LET four == VerticesAround(triangulation, call'.a)
        IN /\ \A h \in Halfedges(triangulation) :
                 Source(triangulation, h) \notin four =>
                     signpostData'.signposts[h] = signpostData.signposts[h]
           /\ \A v \in Vertices(triangulation) \ four :
                 signpostData'.referenceHalfedges[v]
                   = signpostData.referenceHalfedges[v]]_vars

\* C10 witness: updateAfterFlip has run for a flipped edge with two faces on
\* a mesh where a recorded halfedge leaves a vertex outside the four
UpdatedWithBystander ==
    /\ call.op = "updateAfterFlip"
    /\ flips > 0
    /\ triangulation.twin[triangulation.eHalfedge[call.a]] # Null
    /\ \E h \in Halfedges(triangulation) :
          /\ Source(triangulation, h)
               \notin VerticesAround(triangulation, call.a)
          /\ signpostData.signposts[h] # Null

\* the two ends of an edge: where its halfedge starts and where it arrives
Ends(t, e) == {Source(t, t.eHalfedge[e]), t.vertex[t.eHalfedge[e]]}

\* the end of edge e that is not v (v itself for an edge from v to v)
OtherEnd(t, e, v) ==
    IF Ends(t, e) = {v} THEN v ELSE CHOOSE w \in Ends(t, e) : w # v

\* the vertices that can be reached from the set seen along mesh edges
RECURSIVE ReachableFrom(_, _)
ReachableFrom(t, seen) ==
    LET more == {w \in Vertices(t) :
                    \E e \in Edges(t) :
                        w \in Ends(t, e) /\ Ends(t, e) \cap seen # {}}
    IN IF more \subseteq seen THEN seen ELSE ReachableFrom(t, seen \cup more)

\* the edges, taken in order, lead from vertex from to vertex to
RECURSIVE EdgeConnected(_, _, _, _)
EdgeConnected(t, edges, from, to) ==
    IF edges = <<>> THEN from = to
    ELSE /\ from \in Ends(t, Head(edges))
         /\ EdgeConnected(t, Tail(edges), OtherEnd(t, Head(edges), from), to)

\* the last call was computePath and it returned no path
NoPathReturned == call.op = "computePath" /\ call.ret = NoPath

PathOfTwoEdgesReturned ==
    call.op = "computePath" /\ Len(call.ret.edges) = 2 /\ flips > 0

NoPathToItself == NoPathReturned /\ call.a = call.b

\* C20: the edge lengths of the path computePath(s, t) returns add up to
\* the distance of t in the tree computeShortestPathTree([s]) returns.
PathLengthIsTreeDistance ==
    (call.op = "computePath" /\ ~NoPathReturned) =>
        computeLength(triangulation, call.ret.edges)
            = computeShortestPathTree(triangulation,
                                      <<call.a>>).distances[call.b]

\* C20 witness: a returned path of more than one edge
LongerPathReturned ==
    /\ call.op = "computePath"
    /\ Len(call.ret.edges) >= 2
    /\ computeLength(triangulation, call.ret.edges) > 0

\* the vertices a chain of edges visits from vertex from on
RECURSIVE ChainVertices(_, _, _)
ChainVertices(t, edges, from) ==
    IF edges = <<>> THEN <<from>>
    ELSE <<from>> \o ChainVertices(t, Tail(edges), OtherEnd(t, Head(edges), from))

\* the halfedges of edge e that leave vertex v
Leaving(t, e, v) == {h \in Halfedges(t) : t.edge[h] = e /\ Source(t, h) = v}

\* the wedge angle of a path at its k-th vertex (an interior one): the
\* signpost angle from the reversed incoming halfedge to the outgoing
\* halfedge, Null where one of the two has no signpost
WedgeAngle(t, sp, path, k) ==
    LET v == ChainVertices(t, path.edges, path.startVertex)[k]
        in == Leaving(t, path.edges[k - 1], v)
        out == Leaving(t, path.edges[k], v)
    IN IF in = {} \/ out = {} THEN Null
       ELSE LET from == CHOOSE h \in in : TRUE
                to == CHOOSE h \in out : TRUE
            IN IF sp.signposts[from] = Null \/ sp.signposts[to] = Null
               THEN Null
               ELSE (sp.signposts[to] - sp.signposts[from]) % (2 * PI)

\* the positions <<path, vertex>> of the unmarked interior vertices whose
\* wedge angle is below PI
FlexiblePositions(t, sp, net) ==
    {pk \in (1..Len(net.paths)) \X (2..MaxWaypoints * 4) :
        /\ pk[2] <= Len(net.paths[pk[1]].edges)
        /\ EdgeConnected(t, net.paths[pk[1]].edges,
                         net.paths[pk[1]].startVertex,
                         net.paths[pk[1]].endVertex)
        /\ ChainVertices(t, net.paths[pk[1]].edges,
                         net.paths[pk[1]].startVertex)[pk[2]]
               \notin net.markedVertices
        /\ WedgeAngle(t, sp, net.paths[pk[1]], pk[2]) # Null
        /\ WedgeAngle(t, sp, net.paths[pk[1]], pk[2]) < PI}

\* the first of them in scan order (paths in order, vertices in order),
\* Null when there is none
FirstFlexible(t, sp, net) ==
    LET ps == FlexiblePositions(t, sp, net)
    IN IF ps = {} THEN Null
       ELSE LET first == CHOOSE pk \in ps :
                            \A other \in ps :
                                \/ pk[1] < other[1]
                                \/ pk[1] = other[1] /\ pk[2] <= other[2]
            IN ChainVertices(t, net.paths[first[1]].edges,
                             net.paths[first[1]].startVertex)[first[2]]

\* C11: findFlexibleJoint returns null only when no unmarked interior
\* vertex of any path has a wedge angle below PI; when there is one it
\* returns the first in scan order.
FlexibleJointContract ==
    (call.op = "findFlexibleJoint" /\ call.error = "") =>
        call.ret = FirstFlexible(triangulation, signpostData, network)


\* C12: a marked vertex is never returned by findFlexibleJoint and is never
\* the pivot of a flip-out step, in the path shortener and in the loop
\* shortener alike.
MarkedVertexNeverPivot ==
    /\ (call.op = "findFlexibleJoint" /\ call.error = "") =>
           call.ret \notin network.markedVertices
    /\ LoopBuilt =>
           \A i \in 1..Len(call.pivots) :
              call.pivots[i] \notin network.markedVertices

\* C13: iterativeShorten and the loop shortener stop after at most
\* maxIterations outer iterations, and the iteration count they report
\* never exceeds maxIterations.
IterationsBounded ==
    /\ call.op = "iterativeShorten" => call.ret <= call.a
    /\ LoopBuilt =>
          /\ call.ret.iterations <= call.b
          /\ Len(call.pivots) <= call.b

\* C13 witness: a loop was computed with maxIterations = 0 and still has a
\* flexible joint: the limit, not the loop, ended the run
StoppedByLimit ==
    /\ Computed
    /\ call.b = 0
    /\ findFlexibleJointLoop(triangulation, signpostData,
                             network.loop).vertex # Null

\* C14: when the shortener reports converged = true, findFlexibleJoint on
\* the state it leaves returns null; a run that stopped for another reason
\* reports converged = false.
ConvergedMeansNoJoint ==
    (Computed /\ call.ret.converged) =>
        findFlexibleJointLoop(triangulation, signpostData,
                              network.loop).vertex = Null

\* C15: an outer iteration in which no edge flip succeeds ends the
\* shortening instead of being counted: flipOut returns true only when a
\* flip succeeded, and every iteration the loop shortener counts has a flip
\* that succeeded; skipped and failed flips are not counted.
OnlySuccessfulFlipsCount ==
    /\ (call.op = "flipOut" /\ call.error = "") =>
          (call.ret <=> \E i \in 1..Len(call.attempts) :
                           call.attempts[i].returned)
    /\ LoopBuilt =>
          \A i \in 1..call.ret.iterations :
             \E j \in 1..Len(call.attempts[i]) :
                call.attempts[i][j].returned

\* C16: after a flipOut step or a shortening run the edge sequence of every
\* path still leads, edge by edge in the flipped triangulation, from its
\* start vertex to its end vertex, and the edge sequence of a loop still
\* leads from its base vertex back to it.
PathsStayConnected ==
    /\ call.op \in {"flipOut", "iterativeShorten"} =>
          \A i \in 1..Len(network.paths) :
             EdgeConnected(triangulation, network.paths[i].edges,
                           network.paths[i].startVertex,
                           network.paths[i].endVertex)
    /\ LoopBuilt =>
          EdgeConnected(triangulation, network.loop.edges,
                        network.loop.startVertex, network.loop.startVertex)

\* the length of a network's paths in triangulation t: the lengths its
\* path edges have there, summed over the paths
RECURSIVE TotalLength(_, _)
TotalLength(t, paths) ==
    IF paths = <<>> THEN 0
    ELSE computeLength(t, Head(paths).edges) + TotalLength(t, Tail(paths))

\* C17: the total path length never increases over a flipOut step or over
\* a shortening run: the length after it is at most the length before it.
LengthNeverIncreases ==
    [][(call'.op \in {"flipOut", "iterativeShorten"}) =>
        /\ TotalLength(triangulation', network'.paths)
              <= TotalLength(triangulation, network.paths)
        /\ getLength(network'.paths) <= getLength(network.paths)]_vars

\* the flip attempts of the last flip-out: those of flipOut, or those of
\* every flipOutLoop call of the loop shortener
RECURSIVE Flatten(_)
Flatten(seqs) ==
    IF seqs = <<>> THEN <<>> ELSE Head(seqs) \o Flatten(Tail(seqs))

FlipAttempts ==
    IF call.op = "flipOut" THEN call.attempts
    ELSE IF LoopBuilt THEN Flatten(call.attempts)
    ELSE <<>>

\* an attempt changed mesh and signposts together or not at all: after a
\* flip that succeeded every halfedge that the walk around one of the four
\* vertices of the flipped edge reaches has the signpost a computation on
\* the flipped mesh gives it; after one that did not, mesh and signposts
\* are what they were
Transactional(attempt) ==
    IF attempt.returned
    THEN /\ attempt.after.triangulation # attempt.before.triangulation
         /\ \A h \in Halfedges(attempt.after.triangulation) :
               (/\ Source(attempt.after.triangulation, h)
                     \in VerticesAround(attempt.after.triangulation,
                                        attempt.edge)
                /\ initialize(attempt.after.triangulation).signposts[h]
                     # Null)
               => attempt.after.signpostData.signposts[h]
                    = initialize(attempt.after.triangulation).signposts[h]
    ELSE attempt.after = attempt.before

\* C18: every wedge-edge flip attempted during a flip-out is transactional:
\* either the flip succeeded and the signposts of the four affected
\* vertices were recomputed, or the flip did not happen and neither the
\* mesh nor any signpost entry changed.
FlipsTransactional ==
    \A i \in 1..Len(FlipAttempts) : Transactional(FlipAttempts[i])

\* C18 witness: a flip-out has made an attempt that succeeded and an
\* attempt that failed
MixedAttempts ==
    /\ \E i \in 1..Len(FlipAttempts) : FlipAttempts[i].returned
    /\ \E i \in 1..Len(FlipAttempts) :
          FlipAttempts[i].called /\ ~FlipAttempts[i].returned

\* C25: flipping the same flippable interior edge twice in a row succeeds
\* both times and leaves the edge with its original pair of endpoints and
\* its original length.
FlipTwiceRestores ==
    (call.op = "flipEdgeTwice" /\ canFlip(call.before, call.a)) =>
        /\ call.first
        /\ call.second
        /\ Ends(triangulation, call.a) = Ends(call.before, call.a)
        /\ triangulation.length[call.a] = call.before.length[call.a]

\* C26: when Dijkstra expands a vertex it is offered every mesh edge
\* incident to that vertex, also at vertices on the mesh boundary, so the
\* search sees an undirected graph: a vertex offered as a neighbour is
\* itself offered the expanded vertex.
NeighboursAreAllIncidentEdges ==
    call.op = "getNeighbors" =>
        /\ \A e \in Edges(triangulation) :
              call.a \in Ends(triangulation, e) =>
                 \E i \in 1..Len(call.ret) : call.ret[i].edge = e
        /\ \A i \in 1..Len(call.ret) :
              \E j \in 1..Len(getNeighbors(triangulation, call.ret[i].vertex)) :
                 getNeighbors(triangulation, call.ret[i].vertex)[j].vertex
                    = call.a

\* C27: in a triangulation built from a mesh with boundary, every edge with
\* only one incident face, a single halfedge with no twin, is reported as a
\* boundary edge by Edge.isBoundary().
BoundaryEdgesReported ==
    (/\ call.op = "isBoundary"
     /\ flips = 0
     /\ triangulation.twin[triangulation.eHalfedge[call.a]] = Null)
        => call.ret = 1

\* C28: on every mesh accepted by the builder, meshes with boundary
\* included, every outgoing halfedge of every vertex has a recorded
\* signpost angle, so flipOut does not fail for a halfedge without signpost
\* data: when it throws, it threw while walking the path.
EveryHalfedgeHasSignpost ==
    /\ (network.kind = "paths" /\ call.op = "newFlipEdgeNetwork") =>
          \A h \in Halfedges(triangulation) :
             signpostData.signposts[h] # Null
    /\ (call.op = "flipOut" /\ call.error # "") =>
          findPathWith(triangulation, network.paths, 1, call.a).error

\* C30: after a successful flip followed by updateAfterFlip the signpost
\* index is the index a rebuild from scratch on the current mesh gives: the
\* same halfedges are recorded, each with the same angle, and the same
\* reference halfedges (checked on every flip of a flip-out that started
\* from a freshly built index).
UpdateEqualsRebuild ==
    \A i \in 1..Len(FlipAttempts) :
       (/\ FlipAttempts[i].returned
        /\ FlipAttempts[i].before.signpostData
              = initialize(FlipAttempts[i].before.triangulation))
          => FlipAttempts[i].after.signpostData
                = initialize(FlipAttempts[i].after.triangulation)

\* a segmentation has been computed, by MeshSegmentation.compute() on a
\* constructed loop or as the last step of compute()
Segmented == call.op = "segment" \/ Computed

\* the segmentation that was computed
Segmentation ==
    IF call.op = "segment" THEN call.ret
    ELSE IF Computed THEN call.segmentation
    ELSE NoSegmentation

\* the members of a list
Members(list) == {list[i] : i \in 1..Len(list)}

\* the faces that can be reached from the faces seen by crossing edges that
\* are not loop edges
RECURSIVE FacesReachable(_, _, _)
FacesReachable(t, loopEdges, seen) ==
    LET more == {t.face[t.twin[h]] :
                    h \in {g \in Halfedges(t) :
                              /\ t.face[g] \in seen
                              /\ t.edge[g] \notin loopEdges
                              /\ t.twin[g] # Null}}
    IN IF more \subseteq seen THEN seen
       ELSE FacesReachable(t, loopEdges, seen \cup more)

\* C21: after segmentation every face of the mesh appears in exactly one of
\* the inside, outside and boundary face lists: no face in two lists, none
\* missing, none left unknown, and the three sizes sum to the number of
\* faces.
EveryFaceInOneList ==
    Segmented =>
        /\ Len(Segmentation.insideFaces) + Len(Segmentation.outsideFaces)
              + Len(Segmentation.boundaryFaces)
              = Cardinality(Faces(triangulation))
        /\ Members(Segmentation.insideFaces)
              \cup Members(Segmentation.outsideFaces)
              \cup Members(Segmentation.boundaryFaces)
              = Faces(triangulation)
        /\ \A f \in Faces(triangulation) :
              Segmentation.faceRegions[f] # "unknown"

\* C21 witness: a segmentation with a face in each of the three lists
ThreeRegions ==
    /\ Segmented
    /\ Segmentation.insideFaces # <<>>
    /\ Segmentation.outsideFaces # <<>>
    /\ Segmentation.boundaryFaces # <<>>

\* C22: every face that can be reached from a seed's face by crossing only
\* edges that are not loop edges is classified with that seed's region: the
\* faces so reached from the inside seed are Inside, those from the outside
\* seed are Outside.
SeedRegionsFilled ==
    Segmented =>
        LET seeds == determineSeedFaces(triangulation, network.loop)
            loopEdges == loopEdgeIds(network.loop)
        IN /\ seeds.insideSeed # Null =>
                 \A f \in FacesReachable(triangulation, loopEdges,
                                         {seeds.insideSeed}) :
                    Segmentation.faceRegions[f] = "inside"
           /\ seeds.outsideSeed # Null =>
                 \A f \in FacesReachable(triangulation, loopEdges,
                                         {seeds.outsideSeed}) :
                    Segmentation.faceRegions[f] = "outside"

\* C22 as the code has it: the faces reached from the inside seed are
\* Inside; the faces reached from the outside seed are Outside when the loop
\* edges separate the two seeds, and Inside, like the outside seed itself,
\* when the outside seed can be reached from the inside seed.
SeedRegionsFilledInsideFirst ==
    Segmented =>
        LET seeds == determineSeedFaces(triangulation, network.loop)
            loopEdges == loopEdgeIds(network.loop)
            fromInside == IF seeds.insideSeed = Null THEN {}
                          ELSE FacesReachable(triangulation, loopEdges,
                                              {seeds.insideSeed})
        IN /\ \A f \in fromInside : Segmentation.faceRegions[f] = "inside"
           /\ (seeds.outsideSeed # Null /\ seeds.outsideSeed \notin fromInside)
                 => \A f \in FacesReachable(triangulation, loopEdges,
                                            {seeds.outsideSeed}) :
                       Segmentation.faceRegions[f] = "outside"

\* C22 witness: a segmentation whose outside seed is cut off from the inside
\* seed and whose outside flood fill crossed an edge
OutsideFloodCrossedAnEdge ==
    /\ Segmented
    /\ determineSeedFaces(triangulation, network.loop).outsideSeed # Null
    /\ determineSeedFaces(triangulation, network.loop).insideSeed # Null
    /\ determineSeedFaces(triangulation, network.loop).outsideSeed
          \notin FacesReachable(triangulation, loopEdgeIds(network.loop),
                {determineSeedFaces(triangulation, network.loop).insideSeed})
    /\ Cardinality(FacesReachable(triangulation, loopEdgeIds(network.loop),
          {determineSeedFaces(triangulation, network.loop).outsideSeed})) > 1

\* C23: constructing a GeodesicLoop fails whenever some pair of consecutive
\* edges of the supplied sequence shares no vertex, also when the sequence
\* has at least three edges and its first and last edge touch the base
\* vertex.
DisconnectedLoopRejected ==
    (/\ call.op = "newGeodesicLoop"
     /\ \E i \in 1..(Len(call.a) - 1) :
           Ends(triangulation, call.a[i])
              \cap Ends(triangulation, call.a[i + 1]) = {})
        => call.error # ""

\* C29: after segmentation no face classified Inside shares an edge that is
\* not a loop edge with a face classified Outside.
RegionsMeetOnlyAtLoop ==
    Segmented =>
        \A h \in Halfedges(triangulation) :
           (/\ triangulation.twin[h] # Null
            /\ triangulation.edge[h] \notin loopEdgeIds(network.loop)
            /\ Segmentation.faceRegions[triangulation.face[h]] = "inside")
              => Segmentation.faceRegions[
                    triangulation.face[triangulation.twin[h]]] # "outside"

\* C29 witness: a segmentation with an Inside face and an Outside face that
\* share a loop edge
RegionsMeetAtLoop ==
    /\ Segmented
    /\ \E h \in Halfedges(triangulation) :
          /\ triangulation.twin[h] # Null
          /\ triangulation.edge[h] \in loopEdgeIds(network.loop)
          /\ Segmentation.faceRegions[triangulation.face[h]] = "inside"
          /\ Segmentation.faceRegions[
                triangulation.face[triangulation.twin[h]]] = "outside"

\* optimizeOrder has returned an ordering
Ordered == call.op = "optimizeOrder" /\ call.error = ""

\* two neighbours in the waypoint list are the two vertices of edge e
Traversed(t, e, waypoints) ==
    \E k \in 1..(Len(waypoints) - 1) :
       {waypoints[k], waypoints[k + 1]}
           = {getVertices(t, e)[1], getVertices(t, e)[2]}

\* edge e is one of the skipped edges
Skipped(e, skippedEdges) ==
    \E k \in DOMAIN skippedEdges : skippedEdges[k] = e

\* C24: after optimizeOrder (greedy construction, then 2-opt), every input
\* waypoint edge is listed in skippedEdges or its two endpoints are
\* neighbours in orderedWaypoints.
EveryWaypointEdgeSkippedOrTraversed ==
    Ordered =>
       \A i \in DOMAIN call.a :
          \/ Skipped(call.a[i], call.ret.skippedEdges)
          \/ Traversed(triangulation, call.a[i], call.ret.orderedWaypoints)

=========================================================================
